---- MODULE Spec2Model ----
(***************************************************************************)
(* A model of the alsonow HTTP dispatcher: the path normalizer, the        *)
(* per-method route trie, route groups and middleware composition, the     *)
(* Context pool and the chain executor (Context.Next / Abort).             *)
(*                                                                         *)
(* A Go string is modelled as a sequence of one-character strings, so      *)
(* that "/g/:i" is <<"/", "g", "/", ":", "i">> and the strings package's   *)
(* functions are computed character by character.                          *)
(***************************************************************************)
EXTENDS Integers, Sequences, FiniteSets, TLC

VARIABLES
    router,     \* routerImpl: trees (method -> root), the node heap, middlewares
    groups,     \* the Group values created so far
    fault,      \* "none", or the panic that stopped registration
    regs,       \* history: the registration calls made, in order
    pool,       \* routerImpl.pool: the Contexts sync.Pool holds
    ctxs,       \* the Context objects allocated so far
    reqs,       \* the ServeHTTP calls: one record per serving goroutine
    nserved,    \* number of ServeHTTP calls started
    menu,       \* the requests clients send: a set of (method, path)
    npath,      \* normalizer harness: the input string
    nres,       \* normalizer harness: the results computed from npath
    tasks,      \* the goroutines a handler started, working on its Context
    lin,        \* history: the bag operations in the order of their accesses
    an          \* AlsoNow: the stop channel, stopOnce, the server, Run and Stop calls

vars ==
    <<router, groups, fault, regs, pool, ctxs, reqs, nserved, menu, npath, nres,
      tasks, lin, an>>

regVars == <<router, groups, fault, regs>>
serveVars == <<pool, ctxs, reqs, nserved, menu>>
normVars == <<npath, nres>>
taskVars == <<tasks, lin>>
lifeVars == <<an>>

-----------------------------------------------------------------------------
(* Bounds of the model *)

MaxLen == 4         \* longest input string of the normalizer harness
MaxOps == 3         \* registration calls per run
MaxGroups == 2      \* Group values per run
MaxReq == 2         \* concurrent ServeHTTP goroutines
MaxServed == 3      \* ServeHTTP calls per run
MaxStops == 3       \* goroutines calling Stop()

-----------------------------------------------------------------------------
(* The strings package, on sequences of characters *)

HasPrefix(s, p) == Len(s) >= Len(p) /\ SubSeq(s, 1, Len(p)) = p

HasSuffix(s, p) == Len(s) >= Len(p) /\ SubSeq(s, Len(s) - Len(p) + 1, Len(s)) = p

TrimPrefix(s, p) == IF HasPrefix(s, p) THEN SubSeq(s, Len(p) + 1, Len(s)) ELSE s

TrimSuffix(s, p) == IF HasSuffix(s, p) THEN SubSeq(s, 1, Len(s) - Len(p)) ELSE s

IsSpace(c) == c = " "

RECURSIVE TrimLeft(_)
TrimLeft(s) == IF s # <<>> /\ IsSpace(s[1]) THEN TrimLeft(Tail(s)) ELSE s

RECURSIVE TrimRight(_)
TrimRight(s) ==
    IF s # <<>> /\ IsSpace(s[Len(s)]) THEN TrimRight(SubSeq(s, 1, Len(s) - 1)) ELSE s

TrimSpace(s) == TrimRight(TrimLeft(s))

Contains(s, sub) ==
    \E i \in 1..(Len(s) - Len(sub) + 1) : SubSeq(s, i, i + Len(sub) - 1) = sub

\* strings.ReplaceAll for a non-empty old: non-overlapping matches, left to right
RECURSIVE ReplaceAll(_, _, _)
ReplaceAll(s, old, new) ==
    IF Len(s) < Len(old) THEN s
    ELSE IF HasPrefix(s, old)
         THEN new \o ReplaceAll(SubSeq(s, Len(old) + 1, Len(s)), old, new)
         ELSE <<s[1]>> \o ReplaceAll(Tail(s), old, new)

\* strings.Split on a one-character separator: Split("", "/") is [""]
RECURSIVE Split(_, _)
Split(s, c) ==
    IF \E i \in 1..Len(s) : s[i] = c
    THEN LET i == CHOOSE k \in 1..Len(s) : s[k] = c /\ \A j \in 1..(k - 1) : s[j] # c
         IN  <<SubSeq(s, 1, i - 1)>> \o Split(SubSeq(s, i + 1, Len(s)), c)
    ELSE <<s>>

-----------------------------------------------------------------------------
(* normalizePath *)

\* one pass of ReplaceAll in place of the loop
CollapseOnce(path) == ReplaceAll(path, <<"/", "/">>, <<"/">>)

\* for strings.Contains(path, "//") { path = strings.ReplaceAll(path, "//", "/") }
RECURSIVE CollapseSlashes(_)
CollapseSlashes(path) ==
    IF Contains(path, <<"/", "/">>)
    THEN CollapseSlashes(ReplaceAll(path, <<"/", "/">>, <<"/">>))
    ELSE path

normalizePath(path) ==
    IF path = <<>> THEN <<"/">>
    ELSE LET p1 == TrimSpace(path)
             p2 == CollapseSlashes(p1)
             p3 == IF ~HasPrefix(p2, <<"/">>) THEN <<"/">> \o p2 ELSE p2
         IN  IF p3 # <<"/">> THEN TrimSuffix(p3, <<"/">>) ELSE p3

-----------------------------------------------------------------------------
(* The route trie: type node, routerImpl.trees *)

Methods == {"GET", "POST"}

\* A map with no key (a nil map reads the same as an empty one)
EmptyMap == [k \in {} |-> 0]

\* &node{...}: node ids index router.nodes; id 0 is the nil pointer
NewNode(name) ==
    [children |-> EmptyMap, paramChild |-> 0, handlers |-> <<>>,
     hnil |-> TRUE, isEnd |-> FALSE, paramName |-> name]

\* newRouter(): no tree, no middleware
newRouter == [trees |-> [m \in Methods |-> 0], nodes |-> <<>>, middlewares |-> <<>>]

\* a router that keeps one tree for all methods
getTreeShared(R, method) ==
    IF R.trees[method] # 0 THEN R
    ELSE IF \E m \in Methods : R.trees[m] # 0
    THEN [R EXCEPT !.trees[method] = R.trees[CHOOSE m \in Methods : R.trees[m] # 0]]
    ELSE [R EXCEPT !.nodes = Append(@, NewNode(<<>>)),
                   !.trees[method] = Len(R.nodes) + 1]

\* getTree: the method's root, created on first use
getTree(R, method) ==
    IF R.trees[method] = 0
    THEN [R EXCEPT !.nodes = Append(@, NewNode(<<>>)),
                   !.trees[method] = Len(R.nodes) + 1]
    ELSE R

\* a terminal node that collects the chains of all registrations of its path
SetEndAppend(R, cur, combined) ==
    [R EXCEPT !.nodes[cur].isEnd = TRUE,
              !.nodes[cur].handlers = @ \o combined,
              !.nodes[cur].hnil = FALSE]

\* an insert that stores the chain and forgets the terminal flag
SetEndNoFlag(R, cur, combined) ==
    [R EXCEPT !.nodes[cur].handlers = combined,
              !.nodes[cur].hnil = FALSE]

\* cur.isEnd = true; cur.handlers = combined
SetEnd(R, cur, combined) ==
    [R EXCEPT !.nodes[cur].isEnd = TRUE,
              !.nodes[cur].handlers = combined,
              !.nodes[cur].hnil = FALSE]

\* insert without the conflict check: the later parameter name replaces the earlier
RECURSIVE insertWalkLastWins(_, _, _, _)
insertWalkLastWins(R, cur, segments, combined) ==
    IF segments = <<>> THEN [R |-> SetEnd(R, cur, combined), panic |-> "none"]
    ELSE LET segment == Head(segments)
             n == R.nodes[cur]
         IN  IF segment = <<>> THEN [R |-> R, panic |-> "index"]
             ELSE IF segment[1] = ":"
             THEN LET paramName == Tail(segment)
                  IN  IF n.paramChild # 0
                      THEN insertWalkLastWins(
                               [R EXCEPT !.nodes[n.paramChild].paramName = paramName],
                               n.paramChild, Tail(segments), combined)
                      ELSE LET id == Len(R.nodes) + 1
                               R1 == [R EXCEPT !.nodes = Append(@, NewNode(paramName)),
                                               !.nodes[cur].paramChild = id]
                           IN  insertWalkLastWins(R1, id, Tail(segments), combined)
             ELSE IF segment \in DOMAIN n.children
                  THEN insertWalkLastWins(R, n.children[segment], Tail(segments), combined)
                  ELSE LET id == Len(R.nodes) + 1
                           R1 == [R EXCEPT !.nodes = Append(@, NewNode(<<>>)),
                                           !.nodes[cur].children = (segment :> id) @@ @]
                       IN  insertWalkLastWins(R1, id, Tail(segments), combined)

\* an insert that hangs the new parameter node in place before it compares
\* the names
RECURSIVE insertWalkReplacesFirst(_, _, _, _)
insertWalkReplacesFirst(R, cur, segments, combined) ==
    IF segments = <<>> THEN [R |-> SetEnd(R, cur, combined), panic |-> "none"]
    ELSE LET segment == Head(segments)
             n == R.nodes[cur]
         IN  IF segment = <<>> THEN [R |-> R, panic |-> "index"]
             ELSE IF segment[1] = ":"
             THEN LET paramName == Tail(segment)
                      id == Len(R.nodes) + 1
                      R1 == [R EXCEPT !.nodes = Append(@, NewNode(paramName)),
                                      !.nodes[cur].paramChild = id]
                  IN  IF n.paramChild # 0
                      THEN IF R.nodes[n.paramChild].paramName # paramName
                           THEN [R |-> R1, panic |-> "conflict"]
                           ELSE insertWalkReplacesFirst(R, n.paramChild, Tail(segments),
                                                        combined)
                      ELSE insertWalkReplacesFirst(R1, id, Tail(segments), combined)
             ELSE IF segment \in DOMAIN n.children
                  THEN insertWalkReplacesFirst(R, n.children[segment], Tail(segments),
                                               combined)
                  ELSE LET id == Len(R.nodes) + 1
                           R1 == [R EXCEPT !.nodes = Append(@, NewNode(<<>>)),
                                           !.nodes[cur].children = (segment :> id) @@ @]
                       IN  insertWalkReplacesFirst(R1, id, Tail(segments), combined)

\* the loop of insert over the segments; a panic leaves R as it is at that point
RECURSIVE insertWalk(_, _, _, _)
insertWalk(R, cur, segments, combined) ==
    IF segments = <<>> THEN [R |-> SetEnd(R, cur, combined), panic |-> "none"]
    ELSE LET segment == Head(segments)
             n == R.nodes[cur]
         IN  IF segment = <<>> THEN [R |-> R, panic |-> "index"]
             ELSE IF segment[1] = ":"
             THEN LET paramName == Tail(segment)
                  IN  IF n.paramChild # 0
                      THEN IF R.nodes[n.paramChild].paramName # paramName
                           THEN [R |-> R, panic |-> "conflict"]
                           ELSE insertWalk(R, n.paramChild, Tail(segments), combined)
                      ELSE LET id == Len(R.nodes) + 1
                               R1 == [R EXCEPT !.nodes = Append(@, NewNode(paramName)),
                                               !.nodes[cur].paramChild = id]
                           IN  insertWalk(R1, id, Tail(segments), combined)
             ELSE IF segment \in DOMAIN n.children
                  THEN insertWalk(R, n.children[segment], Tail(segments), combined)
                  ELSE LET id == Len(R.nodes) + 1
                           R1 == [R EXCEPT !.nodes = Append(@, NewNode(<<>>)),
                                           !.nodes[cur].children = (segment :> id) @@ @]
                       IN  insertWalk(R1, id, Tail(segments), combined)

insert(R, method, path0, combined) ==
    LET path == normalizePath(path0)
        R1 == getTree(R, method)
        root == R1.trees[method]
    IN  IF path = <<"/">> THEN [R |-> SetEnd(R1, root, combined), panic |-> "none"]
        ELSE insertWalk(R1, root, Split(Tail(path), "/"), combined)

\* a search that returns an empty chain in place of nil
NotFoundEmptyChain == [hnil |-> FALSE, handlers |-> <<>>, params |-> [k \in {} |-> 0]]

\* what search returns: (nil, nil), (handlers, nil) or (handlers, params)
NotFoundRes == [hnil |-> TRUE, handlers |-> <<>>, params |-> EmptyMap]

\* search trying the parameter child before the literal child
RECURSIVE searchWalkParamFirst(_, _, _, _)
searchWalkParamFirst(R, cur, segments, params) ==
    LET n == R.nodes[cur]
    IN  IF segments = <<>>
        THEN IF n.isEnd
             THEN [hnil |-> n.hnil, handlers |-> n.handlers, params |-> params]
             ELSE NotFoundRes
        ELSE LET segment == Head(segments)
             IN  IF n.paramChild # 0
                 THEN searchWalkParamFirst(R, n.paramChild, Tail(segments),
                          (R.nodes[n.paramChild].paramName :> segment) @@ params)
                 ELSE IF segment \in DOMAIN n.children
                 THEN searchWalkParamFirst(R, n.children[segment], Tail(segments), params)
                 ELSE NotFoundRes

\* search that follows the parameter child without recording the segment
RECURSIVE searchWalkNoBind(_, _, _, _)
searchWalkNoBind(R, cur, segments, params) ==
    LET n == R.nodes[cur]
    IN  IF segments = <<>>
        THEN IF n.isEnd
             THEN [hnil |-> n.hnil, handlers |-> n.handlers, params |-> params]
             ELSE NotFoundRes
        ELSE LET segment == Head(segments)
             IN  IF segment \in DOMAIN n.children
                 THEN searchWalkNoBind(R, n.children[segment], Tail(segments), params)
                 ELSE IF n.paramChild # 0
                 THEN searchWalkNoBind(R, n.paramChild, Tail(segments), params)
                 ELSE NotFoundRes

\* search that returns what the last node holds, terminal or not
RECURSIVE searchWalkNoEndCheck(_, _, _, _)
searchWalkNoEndCheck(R, cur, segments, params) ==
    LET n == R.nodes[cur]
    IN  IF segments = <<>>
        THEN [hnil |-> FALSE, handlers |-> n.handlers, params |-> params]
        ELSE LET segment == Head(segments)
             IN  IF segment \in DOMAIN n.children
                 THEN searchWalkNoEndCheck(R, n.children[segment], Tail(segments), params)
                 ELSE IF n.paramChild # 0
                 THEN searchWalkNoEndCheck(R, n.paramChild, Tail(segments),
                          (R.nodes[n.paramChild].paramName :> segment) @@ params)
                 ELSE NotFoundRes

\* search that follows literal children only
RECURSIVE searchWalkNoParam(_, _, _, _)
searchWalkNoParam(R, cur, segments, params) ==
    LET n == R.nodes[cur]
    IN  IF segments = <<>>
        THEN IF n.isEnd
             THEN [hnil |-> n.hnil, handlers |-> n.handlers, params |-> params]
             ELSE NotFoundRes
        ELSE LET segment == Head(segments)
             IN  IF segment \in DOMAIN n.children
                 THEN searchWalkNoParam(R, n.children[segment], Tail(segments), params)
                 ELSE NotFoundRes

\* search that keeps the first segment bound to a name
RECURSIVE searchWalkFirstBinding(_, _, _, _)
searchWalkFirstBinding(R, cur, segments, params) ==
    LET n == R.nodes[cur]
    IN  IF segments = <<>>
        THEN IF n.isEnd
             THEN [hnil |-> n.hnil, handlers |-> n.handlers, params |-> params]
             ELSE NotFoundRes
        ELSE LET segment == Head(segments)
             IN  IF segment \in DOMAIN n.children
                 THEN searchWalkFirstBinding(R, n.children[segment], Tail(segments), params)
                 ELSE IF n.paramChild # 0
                 THEN searchWalkFirstBinding(R, n.paramChild, Tail(segments),
                          params @@ (R.nodes[n.paramChild].paramName :> segment))
                 ELSE NotFoundRes

\* the loop of search over the segments
RECURSIVE searchWalk(_, _, _, _)
searchWalk(R, cur, segments, params) ==
    LET n == R.nodes[cur]
    IN  IF segments = <<>>
        THEN IF n.isEnd
             THEN [hnil |-> n.hnil, handlers |-> n.handlers, params |-> params]
             ELSE NotFoundRes
        ELSE LET segment == Head(segments)
             IN  IF segment \in DOMAIN n.children
                 THEN searchWalk(R, n.children[segment], Tail(segments), params)
                 ELSE IF n.paramChild # 0
                 THEN searchWalk(R, n.paramChild, Tail(segments),
                          (R.nodes[n.paramChild].paramName :> segment) @@ params)
                 ELSE NotFoundRes

search(R, method, path0) ==
    LET path == normalizePath(path0)
        root == IF method \in Methods THEN R.trees[method] ELSE 0
    IN  IF root = 0 THEN NotFoundRes
        ELSE IF path = <<"/">>
        THEN IF R.nodes[root].isEnd
             THEN [hnil |-> R.nodes[root].hnil, handlers |-> R.nodes[root].handlers,
                   params |-> EmptyMap]
             ELSE NotFoundRes
        ELSE searchWalk(R, root, Split(Tail(path), "/"), EmptyMap)

-----------------------------------------------------------------------------
(* Registration: addRoute, Use, Group, Group.Group, Group.add *)

\* combined = middlewares ++ handlers, then insert
addRoute(R, method, path, middlewares, handlers) ==
    insert(R, method, path, middlewares \o handlers)

\* Group.collectMiddlewares: the group's own, then each parent's, then the router's
RECURSIVE collectUp(_, _)
collectUp(G, g) == IF g = 0 THEN <<>> ELSE G[g].middlewares \o collectUp(G, G[g].parent)

collectMiddlewares(R, G, g) == collectUp(G, g) \o R.middlewares

\* the fullPath Group.add composes
addFullPath(prefix, path0) ==
    LET path == normalizePath(path0)
    IN  IF path # <<"/">>
        THEN (IF ~HasSuffix(prefix, <<"/">>) THEN prefix \o <<"/">> ELSE prefix)
                 \o TrimPrefix(path, <<"/">>)
        ELSE prefix

\* the newPrefix Group.Group composes
subPrefix(prefix, sub) ==
    (IF ~HasSuffix(prefix, <<"/">>) THEN prefix \o <<"/">> ELSE prefix)
        \o TrimPrefix(normalizePath(sub), <<"/">>)


-----------------------------------------------------------------------------
(* Registration inputs *)

\* Handlers are opaque values; each call registers handlers of its own
H(k) == <<"H", k>>      \* the route handler of the k-th registration call
M(k) == <<"M", k>>      \* the middleware given to the k-th Group value
U(k) == <<"U", k>>      \* the k-th global middleware given to Use

PathRoot == <<"/">>
PathU == <<"/", "u">>
PathUM == <<"/", "u", "/", "m">>
PathUI == <<"/", "u", "/", ":", "i">>
PathUN == <<"/", "u", "/", ":", "n">>
PathUIO == <<"/", "u", "/", ":", "i", "/", "o">>
PathRaw == <<"u", "/", "/", ":", "i", "/">>

\* patterns given to Router.GET / POST
RegPaths == {PathRoot, PathUM, PathUI, PathUN, PathUIO, PathRaw}

\* prefixes given to Router.Group and Group.Group
Prefixes == {<<"/", "u">>, <<"g", "/">>}

\* relative paths given to Group.GET / POST
RelPaths == {<<"/">>, <<":", "i">>, <<"/", "m", "/">>}

-----------------------------------------------------------------------------
(* The registration phase: one action per API call *)

\* a Use that also puts the middleware in front of the chains registered
\* so far
UseResultRewrites(R, m) ==
    [R EXCEPT !.middlewares = @ \o m,
              !.nodes = [n \in DOMAIN @ |->
                            IF @[n].isEnd THEN [@[n] EXCEPT !.handlers = m \o @]
                            ELSE @[n]]]

\* Router.Use(m...)
UseResult(R, m) == [R EXCEPT !.middlewares = @ \o m]

\* Router.Group(prefix, m...)
NewGroup(prefix, m) == [prefix |-> normalizePath(prefix), middlewares |-> m, parent |-> 0]

\* Group.Group(sub, m...)
NewSubGroup(G, g, sub, m) ==
    [prefix |-> subPrefix(G[g].prefix, sub), middlewares |-> m, parent |-> g]

\* a Group.Group that also appends the child's middleware to the parent's
GroupGroupResultShared(G, g, sub, m) ==
    Append([G EXCEPT ![g].middlewares = @ \o m], NewSubGroup(G, g, sub, m))

\* the Group values after parent.Group(sub, m...): the new one is allocated,
\* the others are as they were
GroupGroupResult(G, g, sub, m) == Append(G, NewSubGroup(G, g, sub, m))

\* Router.GET / POST / ...: addRoute(method, path, nil, h)
RouterAddResult(R, method, path, h) == addRoute(R, method, path, <<>>, h)

\* Group.GET / POST / ...: Group.add(method, path, h)
GroupAddResult(R, G, g, method, path, h) ==
    addRoute(R, method, addFullPath(G[g].prefix, path), collectMiddlewares(R, G, g), h)

\* A registration call: op is "Use", "Group", "SubGroup" or "add"; via is the
\* Group value the call is made on (0: the Router)
Call(op, method, path, via, h) ==
    [op |-> op, method |-> method, path |-> path, via |-> via, h |-> h]

\* The history entry of a call: what was called, the global middleware at that
\* moment, the path and chain handed to insert, and whether the call returned
Entry(call, R, path, chain, ok) ==
    [op |-> call.op, method |-> call.method, path |-> path, via |-> call.via,
     h |-> call.h, glob |-> R.middlewares, chain |-> chain, ok |-> ok]

\* The program state after a call, from the state st before it
ApplyCall(st, call) ==
    LET R == st.router
        G == st.groups
    IN  IF call.op = "Use"
        THEN [st EXCEPT !.router = UseResult(R, call.h),
                        !.regs = Append(@, Entry(call, R, <<>>, <<>>, TRUE))]
        ELSE IF call.op = "Group"
        THEN [st EXCEPT !.groups = Append(@, NewGroup(call.path, call.h)),
                        !.regs = Append(@, Entry(call, R, call.path, <<>>, TRUE))]
        ELSE IF call.op = "SubGroup"
        THEN [st EXCEPT !.groups = GroupGroupResult(G, call.via, call.path, call.h),
                        !.regs = Append(@, Entry(call, R, call.path, <<>>, TRUE))]
        ELSE IF call.via = 0
        THEN LET res == RouterAddResult(R, call.method, call.path, call.h)
             IN  [st EXCEPT !.router = res.R,
                            !.fault = res.panic,
                            !.regs = Append(@, Entry(call, R, call.path, call.h,
                                                     res.panic = "none"))]
        ELSE LET res == GroupAddResult(R, G, call.via, call.method, call.path, call.h)
             IN  [st EXCEPT !.router = res.R,
                            !.fault = res.panic,
                            !.regs = Append(@, Entry(call, R,
                                         addFullPath(G[call.via].prefix, call.path),
                                         collectMiddlewares(R, G, call.via) \o call.h,
                                         res.panic = "none"))]

RegState == [router |-> router, groups |-> groups, fault |-> fault, regs |-> regs]

Register(call) ==
    LET st == ApplyCall(RegState, call)
    IN  /\ router' = st.router
        /\ groups' = st.groups
        /\ fault' = st.fault
        /\ regs' = st.regs
        /\ UNCHANGED <<serveVars, normVars, taskVars, lifeVars>>

\* New(): the stop channel is open, stopOnce is unused, the server is not
\* started, nobody has called Run or Stop
New ==
    [stop |-> "open", closes |-> 0, done |-> FALSE, m |-> 0,
     server |-> "new", run |-> "idle", lis |-> "none",
     notify |-> FALSE, sig |-> FALSE, signalled |-> FALSE,
     via |-> "none", order |-> "none", proc |-> "up",
     stops |-> [s \in 1..MaxStops |-> "idle"]]

\* a ServeHTTP goroutine that has not started
IdleReq ==
    [pc |-> "idle", id |-> 0, method |-> "", path |-> <<>>, handlers |-> <<>>,
     params |-> EmptyMap, ctx |-> 0, stack |-> <<>>, cancelled |-> FALSE,
     log |-> <<>>, events |-> <<>>, seen |-> <<>>, didAbort |-> FALSE,
     resp |-> "none", steps |-> <<>>, status |-> 0]

Init ==
    /\ router = newRouter
    /\ groups = <<>>
    /\ fault = "none"
    /\ regs = <<>>
    /\ pool = {}
    /\ ctxs = <<>>
    /\ reqs = [r \in 1..MaxReq |-> IdleReq]
    /\ nserved = 0
    /\ menu = {}
    /\ npath = <<>>
    /\ nres = <<>>
    /\ tasks = <<>>
    /\ lin = <<>>
    /\ an = New

\* a panic during registration stops the program
CanRegister == fault = "none" /\ Len(regs) < MaxOps

Use ==
    /\ CanRegister
    /\ Register(Call("Use", "", <<>>, 0, <<U(Len(router.middlewares) + 1)>>))

RouterGroup ==
    /\ CanRegister /\ Len(groups) < MaxGroups
    /\ \E prefix \in Prefixes, m \in {<<>>, <<M(Len(groups) + 1)>>} :
          Register(Call("Group", "", prefix, 0, m))

GroupGroup ==
    /\ CanRegister /\ Len(groups) < MaxGroups
    /\ \E g \in 1..Len(groups), sub \in Prefixes \cup {<<"/">>} :
          Register(Call("SubGroup", "", sub, g, <<M(Len(groups) + 1)>>))

RouterAdd ==
    /\ CanRegister
    /\ \E method \in Methods, path \in RegPaths :
          Register(Call("add", method, path, 0, <<H(Len(regs) + 1)>>))

GroupAdd ==
    /\ CanRegister
    /\ \E g \in 1..Len(groups), path \in RelPaths :
          Register(Call("add", "GET", path, g, <<H(Len(regs) + 1)>>))

Next == Use \/ RouterGroup \/ GroupGroup \/ RouterAdd \/ GroupAdd

Spec == Init /\ [][Next]_vars

-----------------------------------------------------------------------------
(* Reference notions the properties are stated with: patterns as segment   *)
(* lists, matching and conflicts by comparing segments, independent of the *)
(* trie                                                                    *)

Segs(path) ==
    LET p == normalizePath(path) IN IF p = <<"/">> THEN <<>> ELSE Split(Tail(p), "/")

IsParam(seg) == seg # <<>> /\ seg[1] = ":"

RECURSIVE JoinPath(_)
JoinPath(segs) == IF segs = <<>> THEN <<>> ELSE <<"/">> \o Head(segs) \o JoinPath(Tail(segs))

PathOf(segs) == IF segs = <<>> THEN <<"/">> ELSE JoinPath(segs)

\* the successful route registrations, and the most recent one of each pattern
OkAdds == {k \in 1..Len(regs) : regs[k].op = "add" /\ regs[k].ok}

SameRoute(j, k) ==
    regs[j].method = regs[k].method /\ Segs(regs[j].path) = Segs(regs[k].path)

LatestOk(k) == k \in OkAdds /\ \A j \in OkAdds : j > k => ~SameRoute(j, k)

\* values a request puts at a parameter position
Values == {<<"4">>, <<"m">>}

\* the pattern with each parameter segment replaced by the value v gives it
Concretize(ps, v) == [j \in 1..Len(ps) |-> IF IsParam(ps[j]) THEN v[j] ELSE ps[j]]

ParamNames(ps) == {Tail(ps[j]) : j \in {i \in 1..Len(ps) : IsParam(ps[i])}}

DistinctNames(ps) ==
    \A i, j \in 1..Len(ps) : IsParam(ps[i]) /\ IsParam(ps[j]) /\ ps[i] = ps[j] => i = j

Binding(ps, v) ==
    [nm \in ParamNames(ps) |-> v[CHOOSE j \in 1..Len(ps) : IsParam(ps[j]) /\ Tail(ps[j]) = nm]]

\* no registered route has, at a parameter position of ps, a literal equal to the value
Unshadowed(method, ps, v) ==
    \A j \in 1..Len(ps) : IsParam(ps[j]) =>
        ~\E q \in OkAdds :
            LET qs == Segs(regs[q].path)
            IN  /\ regs[q].method = method
                /\ Len(qs) >= j
                /\ qs[j] = v[j]
                /\ \A i \in 1..(j - 1) : qs[i] = ps[i]

\* two patterns need different parameter names at the same trie position
RefConflict(ps, qs) ==
    \E j \in 1..Len(ps) :
        /\ j <= Len(qs)
        /\ IsParam(ps[j]) /\ IsParam(qs[j]) /\ ps[j] # qs[j]
        /\ \A i \in 1..(j - 1) : ps[i] = qs[i]

Last(k, method, path) ==
    LatestOk(k) /\ regs[k].method = method /\ Segs(regs[k].path) = Segs(path)

-----------------------------------------------------------------------------
(* C5: literal-over-parameter precedence. A path equal to a registered     *)
(* all-literal pattern returns that pattern's chain with no parameter      *)
(* bound, whatever parameter siblings exist; with /u/m and /u/:i both      *)
(* registered for GET, in either order, /u/m returns the chain of /u/m     *)
(* with no parameter and /u/4 returns the chain of /u/:i with i = 4.       *)
C5_LiteralPrecedence ==
    /\ \A k \in OkAdds :
          LET ps == Segs(regs[k].path)
              res == search(router, regs[k].method, PathOf(ps))
          IN  (LatestOk(k) /\ \A j \in 1..Len(ps) : ~IsParam(ps[j])) =>
                  /\ ~res.hnil
                  /\ res.handlers = regs[k].chain
                  /\ res.params = EmptyMap
    /\ \A a, b \in OkAdds :
          (Last(a, "GET", PathUM) /\ Last(b, "GET", PathUI)) =>
              /\ search(router, "GET", PathUM).handlers = regs[a].chain
              /\ search(router, "GET", PathUM).params = EmptyMap
              /\ search(router, "GET", <<"/", "u", "/", "4">>).handlers = regs[b].chain
              /\ search(router, "GET", <<"/", "u", "/", "4">>).params = (<<"i">> :> <<"4">>)

\* /u/:i was registered before /u/m, and both are served
C5_Witness ==
    \E a, b \in OkAdds :
        /\ b < a
        /\ Last(a, "GET", PathUM) /\ Last(b, "GET", PathUI)
        /\ search(router, "GET", PathUM).handlers = regs[a].chain
        /\ search(router, "GET", <<"/", "u", "/", "4">>).handlers = regs[b].chain

(* C6: a registration fails, with the conflict panic, exactly when its     *)
(* pattern needs at some trie position a parameter name different from the *)
(* one an earlier registration of the same method put there; the failed    *)
(* registration's handlers are stored nowhere, and a pattern reusing the   *)
(* same name succeeds.                                                     *)
C6_ConflictDetection ==
    /\ \A k \in 1..Len(regs) : regs[k].op = "add" =>
          /\ regs[k].ok =
                ~\E j \in OkAdds :
                    /\ j < k
                    /\ regs[j].method = regs[k].method
                    /\ RefConflict(Segs(regs[k].path), Segs(regs[j].path))
          /\ ~regs[k].ok =>
                /\ k = Len(regs)
                /\ fault = "conflict"
                /\ \A n \in 1..Len(router.nodes) :
                      \A i \in 1..Len(router.nodes[n].handlers) :
                          router.nodes[n].handlers[i] # H(k)
    /\ fault # "none" => (regs # <<>> /\ ~regs[Len(regs)].ok)

\* /u/:i is registered, then /u/:n panics
C6_Witness ==
    /\ fault = "conflict"
    /\ \E j \in OkAdds :
          /\ regs[j].method = "GET" /\ regs[j].path = PathUI
          /\ regs[Len(regs)].method = "GET" /\ regs[Len(regs)].path = PathUN
          /\ search(router, "GET", <<"/", "u", "/", "4">>).params = (<<"i">> :> <<"4">>)

(* C7: round trip. For the latest successful registration of a pattern     *)
(* with distinct parameter names, every path obtained by replacing its     *)
(* parameter segments by values that no literal sibling shadows returns    *)
(* the registered chain, with exactly the pattern's parameter names bound  *)
(* to the raw segments at their positions.                                 *)
C7_RoundTrip ==
    \A k \in OkAdds :
        LET ps == Segs(regs[k].path)
        IN  (LatestOk(k) /\ DistinctNames(ps)) =>
                \A v \in [1..Len(ps) -> Values] :
                    Unshadowed(regs[k].method, ps, v) =>
                        LET res == search(router, regs[k].method, PathOf(Concretize(ps, v)))
                        IN  /\ ~res.hnil
                            /\ res.handlers = regs[k].chain
                            /\ res.params = Binding(ps, v)

\* /u/:i/o is registered and /u/4/o returns its chain with i = 4
C7_Witness ==
    \E k \in OkAdds :
        /\ regs[k].path = PathUIO /\ LatestOk(k)
        /\ LET res == search(router, regs[k].method, <<"/", "u", "/", "4", "/", "o">>)
           IN  /\ res.handlers = regs[k].chain
               /\ res.params = (<<"i">> :> <<"4">>)


-----------------------------------------------------------------------------
(* The normalizer on its own: every string up to MaxLen over an alphabet   *)
(* with the separator, white space and an ordinary character               *)

Alphabet == {"/", " ", "a"}

Strings == UNION {[1..n -> Alphabet] : n \in 0..MaxLen}

\* six cases of TestRouter_normalizePath: the input and the result it expects
ExEmpty ==
    <<<<>>,
      <<"/">>>>

ExBare ==
    <<<<"h", "o", "m", "e">>,
      <<"/", "h", "o", "m", "e">>>>

ExTrailing ==
    <<<<"/", "h", "o", "m", "e", "/">>,
      <<"/", "h", "o", "m", "e">>>>

ExRepeated ==
    <<<<"/", "h", "o", "m", "e", "/", "/", "a", "b", "o", "u",
      "t", "/", "/", "/", "c", "o", "n", "t", "a", "c", "t">>,
      <<"/", "h", "o", "m", "e", "/", "a", "b", "o", "u", "t", "/", "c", "o", "n", "t", "a", "c", "t">>>>

ExSlashes ==
    <<<<"/", "/", "/", "/">>,
      <<"/">>>>

ExSpaces ==
    <<<<" ", " ", "/", "a", "p", "i", "/", "/", "v", "1", "/",
      " ", " ">>,
      <<"/", "a", "p", "i", "/", "v", "1">>>>

Examples == {ExEmpty, ExBare, ExTrailing, ExRepeated, ExSlashes, ExSpaces}

InitNorm ==
    /\ router = newRouter
    /\ groups = <<>>
    /\ fault = "none"
    /\ regs = <<>>
    /\ pool = {}
    /\ ctxs = <<>>
    /\ reqs = [r \in 1..MaxReq |-> IdleReq]
    /\ nserved = 0
    /\ menu = {}
    /\ npath \in Strings \cup {ex[1] : ex \in Examples}
    /\ nres = <<>>
    /\ tasks = <<>>
    /\ lin = <<>>
    /\ an = New

\* normalizePath(npath)
Normalize ==
    /\ nres = <<>>
    /\ nres' = <<normalizePath(npath)>>
    /\ UNCHANGED <<regVars, serveVars, npath, taskVars, lifeVars>>

\* normalizePath applied to the result
Renormalize ==
    /\ Len(nres) = 1
    /\ nres' = Append(nres, normalizePath(nres[1]))
    /\ UNCHANGED <<regVars, serveVars, npath, taskVars, lifeVars>>

NextNorm == Normalize \/ Renormalize

SpecNorm == InitNorm /\ [][NextNorm]_vars

\* search on a raw path and on its normalized form, against tries holding any
\* of three routes: the root, a parameter, and a pattern given in a
\* non-canonical form
LookCalls ==
    << Call("add", "GET", PathRoot, 0, <<H(1)>>),
       Call("add", "GET", <<"/", ":", "i">>, 0, <<H(2)>>),
       Call("add", "GET", <<"a", "/", "/", "a", "/">>, 0, <<H(3)>>) >>

RECURSIVE LookState(_, _)
LookState(k, S) ==
    IF k = 0
    THEN [router |-> newRouter, groups |-> <<>>, fault |-> "none", regs |-> <<>>]
    ELSE IF k \in S THEN ApplyCall(LookState(k - 1, S), LookCalls[k])
    ELSE LookState(k - 1, S)

InitLookup ==
    /\ \E S \in SUBSET (1..Len(LookCalls)) :
          /\ router = LookState(Len(LookCalls), S).router
          /\ regs = LookState(Len(LookCalls), S).regs
    /\ groups = <<>>
    /\ fault = "none"
    /\ pool = {}
    /\ ctxs = <<>>
    /\ reqs = [r \in 1..MaxReq |-> [IdleReq EXCEPT !.pc = "off"]]
    /\ nserved = 0
    /\ menu = {}
    /\ npath \in Strings
    /\ nres = <<>>
    /\ tasks = <<>>
    /\ lin = <<>>
    /\ an = New

\* search(method, npath)
LookupRaw ==
    /\ nres = <<>>
    /\ \E method \in Methods :
          nres' = <<[method |-> method, res |-> search(router, method, npath)]>>
    /\ UNCHANGED <<regVars, serveVars, npath, taskVars, lifeVars>>

\* search(method, normalizePath(npath))
LookupNormalized ==
    /\ Len(nres) = 1
    /\ nres' = Append(nres, [method |-> nres[1].method,
                             res |-> search(router, nres[1].method,
                                            normalizePath(npath))])
    /\ UNCHANGED <<regVars, serveVars, npath, taskVars, lifeVars>>

NextLookup == LookupRaw \/ LookupNormalized

SpecLookup == InitLookup /\ [][NextLookup]_vars

(* C8: normalizePath is idempotent: normalizing a result again returns it  *)
(* unchanged, for every input string.                                      *)
C8_Idempotent == Len(nres) = 2 => nres[2] = nres[1]


-----------------------------------------------------------------------------
(* Context: the pooled per-request state, and the chain executor           *)

\* int8 arithmetic: the cursor Context.index is a signed 8-bit integer
Int8(x) == ((x + 128) % 256) - 128

\* sync.RWMutex, unlocked: no writer, no reader
MuFree == [w |-> FALSE, r |-> 0]

\* pool.New: a Context with empty params and data maps
NewContext ==
    [Writer |-> 0, Req |-> 0, params |-> EmptyMap, data |-> EmptyMap,
     index |-> 0, handlers |-> <<>>, aborted |-> FALSE, mu |-> MuFree]

\* acquireCtx without clear(ctx.params) and clear(ctx.data)
acquireCtxNoClear(c, w, req, h) ==
    [c EXCEPT !.Writer = w, !.Req = req, !.handlers = h, !.index = -1,
              !.aborted = FALSE]

\* acquireCtx without ctx.aborted = false
acquireCtxKeepsAborted(c, w, req, h) ==
    [c EXCEPT !.Writer = w, !.Req = req, !.handlers = h, !.index = -1,
              !.params = EmptyMap, !.data = EmptyMap]

\* acquireCtx, on the Context c which pool.Get returned
acquireCtx(c, w, req, h) ==
    [c EXCEPT !.Writer = w, !.Req = req, !.handlers = h, !.index = -1,
              !.aborted = FALSE, !.params = EmptyMap, !.data = EmptyMap]

\* a release that puts the Context back with its request still bound
releaseCtxKeepsReq(c) == [c EXCEPT !.handlers = <<>>, !.Writer = 0]

\* releaseCtx before pool.Put: the chain, the sink and the request are dropped
releaseCtx(c) == [c EXCEPT !.handlers = <<>>, !.Writer = 0, !.Req = 0]

\* a pool whose Get leaves the Context in the pool
PoolGetKeeps(P, c) == P

\* pool.Get takes the Context out of the pool
PoolAfterGet(P, c) == P \ {c}

\* the entry of Context.Next: return when aborted, otherwise c.index++
NextEntered(c) == ~c.aborted

\* a Next that moves the cursor before it looks at the abort flag
NextEnterCountsFirst(c) == [c EXCEPT !.index = Int8(@ + 1)]

NextEnter(c) == IF c.aborted THEN c ELSE [c EXCEPT !.index = Int8(@ + 1)]

\* a loop that tests c.aborted only at the entry of Next
NextLoopNoAbortCheck(c, cancelled) ==
    IF c.index < Int8(Len(c.handlers))
    THEN IF cancelled THEN "return"
         ELSE IF c.index < 0 \/ c.index >= Len(c.handlers) THEN "panic"
         ELSE "call"
    ELSE "return"

\* a loop that looks at the request's cancellation only before its first
\* handler
NextLoopNoCancelCheck(c, cancelled) ==
    IF c.index < Int8(Len(c.handlers))
    THEN IF c.aborted THEN "return"
         ELSE IF cancelled /\ c.index = 0 THEN "return"
         ELSE IF c.index < 0 \/ c.index >= Len(c.handlers) THEN "panic"
         ELSE "call"
    ELSE "return"

\* the loop of Context.Next, at its head: "call" the handler at the cursor,
\* "return", or "panic" (an index out of range)
NextLoopDecision(c, cancelled) ==
    IF c.index < Int8(Len(c.handlers))
    THEN IF c.aborted THEN "return"
         ELSE IF cancelled THEN "return"
         ELSE IF c.index < 0 \/ c.index >= Len(c.handlers) THEN "panic"
         ELSE "call"
    ELSE "return"

\* Context.Abort
Abort(c) == [c EXCEPT !.aborted = TRUE]

\* Context.IsAborted
IsAborted(c) == c.aborted

\* the bodies of Context.Set, Get and Delete, between Lock and Unlock
Set(c, key, value) == [c EXCEPT !.data = (key :> value) @@ @]

Get(c, key) ==
    IF key \in DOMAIN c.data THEN [v |-> c.data[key], ok |-> TRUE]
    ELSE [v |-> 0, ok |-> FALSE]

Delete(c, key) == [c EXCEPT !.data = [k \in (DOMAIN @) \ {key} |-> @[k]]]

\* a search that takes its root from getTree, which creates the tree of a
\* method it has not seen
searchRouterGetTree(R, method) == IF method \in Methods THEN getTree(R, method) ELSE R

\* the router after search(method, path): search reads r.trees[method] and
\* the nodes under it, and writes nothing
searchRouter(R, method) == R

\* Handler bodies: a handler is a list of the calls it makes on its Context
hR == <<"R", 0>>         \* global middleware that wraps the rest: c.Next()
hB == <<"B", 0>>         \* group middleware
hM == <<"M", 0>>        \* nested group middleware
hW == <<"W", 0>>         \* route middleware that wraps the rest: c.Next()
hAN == <<"AN", 0>>       \* calls c.Abort(), then c.Next()
hP == <<"P", 0>>         \* plain handlers
hC == <<"C", 0>>
hX == <<"X", 0>>
hD == <<"D", 0>>
hK == <<"K", 0>>         \* stores a key: c.Set("k", ...)
hV == <<"V", 0>>         \* wraps the rest, then asks: c.Next(); c.IsAborted()
hA == <<"A", 0>>         \* calls c.Abort()
hT == <<"T", 0>>         \* starts goroutines working on c and waits for them
hF == <<"F", 0>>         \* faults: panic(...)
hQ == <<"Q", 0>>         \* a plain handler placed after hF
Recover == <<"Recover", 0>>   \* defer func() { recover() ... }(); c.Next()
hN(n) == <<"N", n>>      \* calls c.Next() n times
Z(k) == <<"Z", k>>      \* handlers whose body is any script

MaxChain == 3           \* the length of the chain of Z handlers

Ops == {"Abort", "Next"}

AllScripts == UNION {[1..n -> Ops] : n \in 0..2}

ScriptsOf(h) ==
    IF h[1] = "Z" THEN AllScripts
    ELSE IF h[1] \in {"R", "W"} THEN {<<"Next">>}
    ELSE IF h[1] = "AN" THEN {<<"Abort", "Next">>}
    ELSE IF h[1] = "K" THEN {<<"Set">>}
    ELSE IF h[1] = "V" THEN {<<"Next", "IsAborted">>}
    ELSE IF h[1] = "A" THEN {<<"Abort">>}
    ELSE IF h[1] = "T" THEN {<<"Go", "Wait">>}
    ELSE IF h[1] = "F" THEN {<<"Panic">>}
    ELSE IF h[1] = "N" THEN {[i \in 1..h[2] |-> "Next"]}
    ELSE IF h[1] = "Recover" THEN {<<"Next">>}
    ELSE {<<>>}

-----------------------------------------------------------------------------
(* An application: the routes the served router holds *)

PathG == <<"/", "g">>
PathC == <<"/", "c">>
PathN == <<"/", "n">>
PathX == <<"/", "x">>
PathT == <<"/", "t">>
PathZ == <<"/", "z">>
PathGC == <<"/", "g", "/", "c">>
PathGNX == <<"/", "g", "/", "n", "/", "x">>
PathU4 == <<"/", "u", "/", "4">>
PathNone == <<"/", "g", "/", "q">>
PathPN == <<"/", "p", "/", ":", "n">>
PathAN == <<"/", "a", "/", ":", "n">>
PathP7 == <<"/", "p", "/", "7">>
PathB == <<"/", "b">>
PathA7 == <<"/", "a", "/", "7">>

AppCalls ==
    << Call("Use", "", <<>>, 0, <<hR>>),
       Call("Group", "", PathG, 0, <<hB>>),
       Call("add", "GET", PathC, 1, <<hC>>),
       Call("SubGroup", "", PathN, 1, <<hM>>),
       Call("add", "GET", PathX, 2, <<hX>>),
       Call("add", "GET", PathRoot, 0, <<hD>>),
       Call("add", "GET", PathT, 0, <<hW, hAN, hP>>),
       Call("add", "GET", PathUI, 0, <<hP>>),
       Call("add", "GET", PathZ, 0, [k \in 1..MaxChain |-> Z(k)]),
       Call("add", "GET", PathPN, 0, <<hK, hV, hP>>),
       Call("add", "GET", PathAN, 0, <<hK, hV, hA>>),
       Call("add", "GET", PathB, 0, <<hT>>) >>

RECURSIVE AppState(_)
AppState(k) ==
    IF k = 0
    THEN [router |-> newRouter, groups |-> <<>>, fault |-> "none", regs |-> <<>>]
    ELSE ApplyCall(AppState(k - 1), AppCalls[k])

App == AppState(Len(AppCalls))

Req(method, path) == [method |-> method, path |-> path]

\* requests of the concurrent dispatcher runs
ServeMenu ==
    {Req("GET", PathGC), Req("GET", PathGNX), Req("GET", PathRoot), Req("GET", PathT),
     Req("GET", PathU4), Req("GET", PathNone), Req("POST", PathRoot),
     Req("PUT", PathGC)}

\* requests of the chain executor runs
ChainMenu == {Req("GET", PathZ)}

\* requests of the key/value bag runs
BagMenu == {Req("GET", PathB)}

\* requests of the Context reuse runs
PoolMenu == {Req("GET", PathP7), Req("GET", PathA7), Req("GET", PathU4)}


-----------------------------------------------------------------------------
(* Serving: routerImpl.ServeHTTP, one goroutine per request, and the        *)
(* handlers it runs through Context.Next                                   *)

InFlight(r) == reqs[r].pc \in {"acquire", "params", "callnext", "running", "release"}

NextFrame == [kind |-> "next", h |-> <<"", 0>>, index |-> -1, script |-> <<>>]

HandlerFrame(h, index, script) ==
    [kind |-> "h", h |-> h, index |-> index, script |-> script]

\* history: handler k is entered ("in"), calls Next ("next"), gets the control
\* back from Next ("back"), returns ("out"); stop tells whether the chain was
\* aborted or the request cancelled at that moment
Event(e, k, q, c) == [e |-> e, k |-> k, stop |-> c.aborted \/ q.cancelled]

Top(r) == reqs[r].stack[Len(reqs[r].stack)]

Pop(stack) == SubSeq(stack, 1, Len(stack) - 1)

\* ServeHTTP is called with a request: search, and http.NotFound when it
\* returns no chain
ServeSearch(r) ==
    /\ reqs[r].pc \in {"idle", "done", "panic"}
    /\ nserved < MaxServed
    /\ \E q \in menu :
          /\ LET res == search(router, q.method, q.path)
                 new == [IdleReq EXCEPT !.id = nserved + 1, !.method = q.method,
                                        !.path = q.path, !.steps = <<"search">>]
             IN  reqs' = [reqs EXCEPT ![r] =
                             IF res.hnil
                             THEN [new EXCEPT !.pc = "done", !.resp = "notfound"]
                             ELSE [new EXCEPT !.pc = "acquire",
                                              !.handlers = res.handlers,
                                              !.params = res.params]]
          /\ router' = searchRouter(router, q.method)
    /\ nserved' = nserved + 1
    /\ UNCHANGED <<groups, fault, regs, pool, ctxs, menu, normVars, taskVars, lifeVars>>

\* ctx := r.acquireCtx(w, req, handlers): pool.Get returns a pooled Context
\* or a new one
ServeAcquire(r) ==
    /\ reqs[r].pc = "acquire"
    /\ \E c \in pool \cup (IF Len(ctxs) < MaxReq THEN {Len(ctxs) + 1} ELSE {}) :
          LET all == IF c > Len(ctxs) THEN Append(ctxs, NewContext) ELSE ctxs
          IN  /\ ctxs' = [all EXCEPT ![c] =
                             acquireCtx(@, reqs[r].id, reqs[r].id, reqs[r].handlers)]
              /\ pool' = PoolAfterGet(pool, c)
              /\ reqs' = [reqs EXCEPT ![r].ctx = c, ![r].pc = "params",
                                      ![r].steps = Append(@, "acquire")]
    /\ UNCHANGED <<regVars, nserved, menu, normVars, taskVars, lifeVars>>

\* for k, v := range params { ctx.params[k] = v }
ServeParams(r) ==
    /\ reqs[r].pc = "params"
    /\ ctxs' = [ctxs EXCEPT ![reqs[r].ctx].params = reqs[r].params @@ @]
    /\ reqs' = [reqs EXCEPT ![r].pc = "callnext",
                            ![r].steps = Append(@, "params")]
    /\ UNCHANGED <<regVars, pool, nserved, menu, normVars, taskVars, lifeVars>>

\* ctx.Next(), called by ServeHTTP
ServeNext(r) ==
    /\ reqs[r].pc = "callnext"
    /\ LET c == ctxs[reqs[r].ctx]
       IN  /\ ctxs' = [ctxs EXCEPT ![reqs[r].ctx] = NextEnter(c)]
           /\ reqs' = [reqs EXCEPT ![r] =
                          IF NextEntered(c)
                          THEN [@ EXCEPT !.pc = "running", !.stack = <<NextFrame>>,
                                         !.steps = Append(@, "next")]
                          ELSE [@ EXCEPT !.pc = "release",
                                         !.steps = Append(@, "next")]]
    /\ UNCHANGED <<regVars, pool, nserved, menu, normVars, taskVars, lifeVars>>

\* a dispatcher that releases the Context as soon as any Next call returns
ReturnedReleasesAtOnce(q, c) == [q EXCEPT !.stack = Pop(@), !.pc = "release"]

\* the state of the goroutine after a Next call returned
Returned(q, c) ==
    LET st == Pop(q.stack)
    IN  [q EXCEPT !.stack = st,
                  !.pc = IF st = <<>> THEN "release" ELSE "running",
                  !.events = IF st = <<>> THEN @
                             ELSE Append(@, Event("back", st[Len(st)].index, q, c))]

\* the head of the loop of Next: the handler at the cursor is called, or Next returns
NextLoop(r) ==
    /\ reqs[r].pc = "running"
    /\ Top(r).kind = "next"
    /\ LET c == ctxs[reqs[r].ctx]
           d == NextLoopDecision(c, reqs[r].cancelled)
       IN  IF d = "call"
           THEN \E script \in ScriptsOf(c.handlers[c.index + 1]) :
                   reqs' = [reqs EXCEPT
                       ![r].stack = Append(@, HandlerFrame(c.handlers[c.index + 1],
                                                           c.index, script)),
                       ![r].log = Append(@, [h |-> c.handlers[c.index + 1],
                                             index |-> c.index,
                                             script |-> script,
                                             afterAbort |-> reqs[r].didAbort,
                                             cancelled |-> reqs[r].cancelled,
                                             params |-> c.params,
                                             data |-> c.data,
                                             aborted |-> c.aborted]),
                       ![r].events = Append(@, Event("in", c.index, reqs[r], c))]
           ELSE IF d = "panic"
           THEN reqs' = [reqs EXCEPT ![r].pc = "panic", ![r].stack = <<>>]
           ELSE reqs' = [reqs EXCEPT ![r] = Returned(@, c)]
    /\ UNCHANGED <<regVars, pool, ctxs, nserved, menu, normVars, taskVars, lifeVars>>

\* a handler calls c.Abort()
HandlerAbort(r) ==
    /\ reqs[r].pc = "running"
    /\ Top(r).kind = "h" /\ Top(r).script # <<>> /\ Head(Top(r).script) = "Abort"
    /\ ctxs' = [ctxs EXCEPT ![reqs[r].ctx] = Abort(@)]
    /\ reqs' = [reqs EXCEPT ![r].stack[Len(reqs[r].stack)].script = Tail(@),
                            ![r].didAbort = TRUE]
    /\ UNCHANGED <<regVars, pool, nserved, menu, normVars, taskVars, lifeVars>>

\* a handler calls c.Next()
HandlerNext(r) ==
    /\ reqs[r].pc = "running"
    /\ Top(r).kind = "h" /\ Top(r).script # <<>> /\ Head(Top(r).script) = "Next"
    /\ LET c == ctxs[reqs[r].ctx]
           st == [reqs[r].stack EXCEPT ![Len(reqs[r].stack)].script = Tail(@)]
           k == Top(r).index
       IN  /\ ctxs' = [ctxs EXCEPT ![reqs[r].ctx] = NextEnter(c)]
           /\ reqs' = [reqs EXCEPT
                  ![r].stack = IF NextEntered(c) THEN Append(st, NextFrame) ELSE st,
                  ![r].events =
                      IF NextEntered(c) THEN Append(@, Event("next", k, reqs[r], c))
                      ELSE @ \o <<Event("next", k, reqs[r], c),
                                  Event("back", k, reqs[r], c)>>]
    /\ UNCHANGED <<regVars, pool, nserved, menu, normVars, taskVars, lifeVars>>

\* a loop that counts in a variable of its own: when the handler it called
\* returns, it goes on with the handler after that one
HandlerReturnOwnCounter(r) ==
    /\ reqs[r].pc = "running"
    /\ Top(r).kind = "h" /\ Top(r).script = <<>>
    /\ ctxs' = [ctxs EXCEPT ![reqs[r].ctx].index = Int8(Top(r).index + 1)]
    /\ reqs' = [reqs EXCEPT
           ![r].stack = Pop(@),
           ![r].events = Append(@, Event("out", Top(r).index, reqs[r],
                                         ctxs[reqs[r].ctx]))]
    /\ UNCHANGED <<regVars, pool, nserved, menu, normVars, taskVars, lifeVars>>

\* a handler returns to the loop of the Next that called it: c.index++
HandlerReturn(r) ==
    /\ reqs[r].pc = "running"
    /\ Top(r).kind = "h" /\ Top(r).script = <<>>
    /\ ctxs' = [ctxs EXCEPT ![reqs[r].ctx].index = Int8(@ + 1)]
    /\ reqs' = [reqs EXCEPT
           ![r].stack = Pop(@),
           ![r].events = Append(@, Event("out", Top(r).index, reqs[r],
                                         ctxs[reqs[r].ctx]))]
    /\ UNCHANGED <<regVars, pool, nserved, menu, normVars, taskVars, lifeVars>>

\* a handler calls c.Set("k", v): Lock, the write, Unlock
HandlerSet(r) ==
    /\ reqs[r].pc = "running"
    /\ Top(r).kind = "h" /\ Top(r).script # <<>> /\ Head(Top(r).script) = "Set"
    /\ ctxs[reqs[r].ctx].mu = MuFree
    /\ ctxs' = [ctxs EXCEPT ![reqs[r].ctx] = Set(@, "k", reqs[r].id)]
    /\ reqs' = [reqs EXCEPT ![r].stack[Len(reqs[r].stack)].script = Tail(@)]
    /\ UNCHANGED <<regVars, pool, nserved, menu, normVars, taskVars, lifeVars>>

\* a handler calls c.IsAborted(); history: what it was told, and whether a
\* handler of this request had called Abort
HandlerIsAborted(r) ==
    /\ reqs[r].pc = "running"
    /\ Top(r).kind = "h" /\ Top(r).script # <<>> /\ Head(Top(r).script) = "IsAborted"
    /\ reqs' = [reqs EXCEPT
           ![r].stack[Len(reqs[r].stack)].script = Tail(@),
           ![r].seen = Append(@, [h |-> Top(r).h,
                                  val |-> IsAborted(ctxs[reqs[r].ctx]),
                                  did |-> reqs[r].didAbort])]
    /\ UNCHANGED <<regVars, pool, ctxs, nserved, menu, normVars, taskVars, lifeVars>>

\* the frames of goroutine r's stack that run Recover: their deferred
\* function is waiting
Recovering(r) ==
    {i \in 1..(Len(reqs[r].stack) - 1) :
        reqs[r].stack[i].kind = "h" /\ reqs[r].stack[i].h = Recover}

\* the stack once the deferred function of the Recover frame i has run: the
\* calls above it are abandoned where they stood, and Recover returns
Unwound(stack, i) == [SubSeq(stack, 1, i) EXCEPT ![i].script = <<>>]

\* a dispatcher that releases in a deferred call: a panic nobody recovers
\* puts the Context back on its way out of ServeHTTP
HandlerPanicReleases(r) ==
    /\ reqs[r].pc = "running"
    /\ Top(r).kind = "h" /\ Top(r).script # <<>> /\ Head(Top(r).script) = "Panic"
    /\ IF Recovering(r) # {}
       THEN LET i == CHOOSE x \in Recovering(r) : \A y \in Recovering(r) : y <= x
            IN  /\ reqs' = [reqs EXCEPT
                       ![r].stack = Unwound(@, i),
                       ![r].status = 500,
                       ![r].events = Append(@, Event("recover", reqs[r].stack[i].index,
                                                     reqs[r], ctxs[reqs[r].ctx]))]
                /\ UNCHANGED <<pool, ctxs>>
       ELSE /\ reqs' = [reqs EXCEPT ![r].pc = "panic", ![r].stack = <<>>]
            /\ ctxs' = [ctxs EXCEPT ![reqs[r].ctx] = releaseCtx(@)]
            /\ pool' = pool \cup {reqs[r].ctx}
    /\ UNCHANGED <<regVars, nserved, menu, normVars, taskVars, lifeVars>>

\* a handler panics. The innermost Recover below it on the stack recovers
\* and writes the 500 response with http.Error; when there is none the panic
\* leaves ServeHTTP, and releaseCtx is not reached
HandlerPanic(r) ==
    /\ reqs[r].pc = "running"
    /\ Top(r).kind = "h" /\ Top(r).script # <<>> /\ Head(Top(r).script) = "Panic"
    /\ IF Recovering(r) # {}
       THEN LET i == CHOOSE x \in Recovering(r) : \A y \in Recovering(r) : y <= x
            IN  reqs' = [reqs EXCEPT
                    ![r].stack = Unwound(@, i),
                    ![r].status = 500,
                    ![r].events = Append(@, Event("recover", reqs[r].stack[i].index,
                                                  reqs[r], ctxs[reqs[r].ctx]))]
       ELSE reqs' = [reqs EXCEPT ![r].pc = "panic", ![r].stack = <<>>]
    /\ UNCHANGED <<regVars, pool, ctxs, nserved, menu, normVars, taskVars, lifeVars>>

\* r.releaseCtx(ctx), and ServeHTTP returns
ServeRelease(r) ==
    /\ reqs[r].pc = "release"
    /\ ctxs' = [ctxs EXCEPT ![reqs[r].ctx] = releaseCtx(@)]
    /\ pool' = pool \cup {reqs[r].ctx}
    /\ reqs' = [reqs EXCEPT ![r].pc = "done", ![r].resp = "served",
                            ![r].steps = Append(@, "release")]
    /\ UNCHANGED <<regVars, nserved, menu, normVars, taskVars, lifeVars>>

\* the client goes away: the request's context is cancelled
Cancel(r) ==
    /\ InFlight(r)
    /\ ~reqs[r].cancelled
    /\ reqs' = [reqs EXCEPT ![r].cancelled = TRUE]
    /\ UNCHANGED <<regVars, pool, ctxs, nserved, menu, normVars, taskVars, lifeVars>>

InitApp(m, active) ==
    /\ router = App.router
    /\ groups = App.groups
    /\ fault = App.fault
    /\ regs = App.regs
    /\ pool = {}
    /\ ctxs = <<>>
    /\ reqs = [r \in 1..MaxReq |-> IF r <= active THEN IdleReq
                                   ELSE [IdleReq EXCEPT !.pc = "off"]]
    /\ nserved = 0
    /\ menu = m
    /\ npath = <<>>
    /\ nres = <<>>
    /\ tasks = <<>>
    /\ lin = <<>>
    /\ an = New

\* concurrent requests against the application's routes
InitServe == InitApp(ServeMenu, MaxReq)

NextServe ==
    \E r \in 1..MaxReq :
        \/ ServeSearch(r)
        \/ ServeAcquire(r)
        \/ ServeParams(r)
        \/ ServeNext(r)
        \/ NextLoop(r)
        \/ HandlerAbort(r)
        \/ HandlerNext(r)
        \/ HandlerReturn(r)
        \/ ServeRelease(r)

SpecServe == InitServe /\ [][NextServe]_vars

\* one goroutine at a time, running chains of handlers with any body, with
\* cancellation
InitChain == InitApp(ChainMenu, 1)

NextChain == NextServe \/ \E r \in 1..MaxReq : Cancel(r)

SpecChain == InitChain /\ [][NextChain]_vars

\* concurrent requests whose handlers store keys, ask IsAborted and abort, on
\* Contexts taken from the pool again and again
InitPool == InitApp(PoolMenu, MaxReq)

NextPool ==
    \/ NextServe
    \/ \E r \in 1..MaxReq : HandlerSet(r) \/ HandlerIsAborted(r)

SpecPool == InitPool /\ [][NextPool]_vars

\* one goroutine serving a route whose chain has n plain handlers, for every
\* n up to MaxLong
MaxLong == 129

L(k) == <<"L", k>>

PathL == <<"/", "l">>

LongApp(n) ==
    ApplyCall(AppState(0), Call("add", "GET", PathL, 0, [k \in 1..n |-> L(k)]))

InitLong ==
    /\ \E n \in 0..MaxLong :
          /\ router = LongApp(n).router
          /\ regs = LongApp(n).regs
    /\ groups = <<>>
    /\ fault = "none"
    /\ pool = {}
    /\ ctxs = <<>>
    /\ reqs = [r \in 1..MaxReq |-> IF r = 1 THEN IdleReq
                                   ELSE [IdleReq EXCEPT !.pc = "off"]]
    /\ nserved = 0
    /\ menu = {Req("GET", PathL)}
    /\ npath = <<>>
    /\ nres = <<>>
    /\ tasks = <<>>
    /\ lin = <<>>
    /\ an = New

NextLong ==
    \E r \in 1..MaxReq :
        \/ ServeSearch(r)
        \/ ServeAcquire(r)
        \/ ServeParams(r)
        \/ ServeNext(r)
        \/ NextLoop(r)
        \/ HandlerReturn(r)
        \/ ServeRelease(r)

SpecLong == InitLong /\ [][NextLong]_vars


-----------------------------------------------------------------------------
(* The key/value bag under concurrency: a handler starts MaxTasks           *)
(* goroutines, each calls Set, Get or Delete on the handler's Context, and *)
(* the handler waits for them                                              *)

MaxTasks == 3

BagOps == {"Set", "Get", "Delete"}

\* c.mu.Lock() returns when no goroutine holds the lock
CanLock(mu) == ~mu.w /\ mu.r = 0

\* a read lock that never waits
CanRLockAlways(mu) == TRUE

\* c.mu.RLock() returns when no goroutine holds the write lock
CanRLock(mu) == ~mu.w

Lock(mu) == [mu EXCEPT !.w = TRUE]

Unlock(mu) == [mu EXCEPT !.w = FALSE]

RLock(mu) == [mu EXCEPT !.r = @ + 1]

RUnlock(mu) == [mu EXCEPT !.r = @ - 1]

NewTask(c) == [pc |-> "ready", op |-> "", ctx |-> c, res |-> [v |-> 0, ok |-> FALSE]]

\* what a map read gives while another goroutine writes the map: any value,
\* nothing, or the runtime's fatal error
RaceOutcomes ==
    {[v |-> x, ok |-> TRUE] : x \in 1..MaxTasks}
        \cup {[v |-> 0, ok |-> FALSE], [v |-> -1, ok |-> FALSE]}

Writing(t) == \E u \in DOMAIN tasks : u # t /\ tasks[u].ctx = tasks[t].ctx
                                       /\ tasks[u].pc = "writing"

\* the handler starts the goroutines
HandlerGo(r) ==
    /\ reqs[r].pc = "running"
    /\ Top(r).kind = "h" /\ Top(r).script # <<>> /\ Head(Top(r).script) = "Go"
    /\ tasks' = [t \in 1..MaxTasks |-> NewTask(reqs[r].ctx)]
    /\ lin' = <<>>
    /\ reqs' = [reqs EXCEPT ![r].stack[Len(reqs[r].stack)].script = Tail(@)]
    /\ UNCHANGED <<regVars, pool, ctxs, nserved, menu, normVars, lifeVars>>

\* the handler waits until all its goroutines have ended
HandlerWait(r) ==
    /\ reqs[r].pc = "running"
    /\ Top(r).kind = "h" /\ Top(r).script # <<>> /\ Head(Top(r).script) = "Wait"
    /\ \A t \in DOMAIN tasks : tasks[t].pc = "done"
    /\ reqs' = [reqs EXCEPT ![r].stack[Len(reqs[r].stack)].script = Tail(@)]
    /\ UNCHANGED <<regVars, pool, ctxs, nserved, menu, normVars, taskVars, lifeVars>>

\* a goroutine calls Set, Get or Delete: c.mu.Lock() or c.mu.RLock()
TaskLock(t) ==
    /\ tasks[t].pc = "ready"
    /\ \E op \in BagOps :
          LET mu == ctxs[tasks[t].ctx].mu
          IN  /\ IF op = "Get" THEN CanRLock(mu) ELSE CanLock(mu)
              /\ ctxs' = [ctxs EXCEPT ![tasks[t].ctx].mu =
                              IF op = "Get" THEN RLock(mu) ELSE Lock(mu)]
              /\ tasks' = [tasks EXCEPT ![t].pc = "locked", ![t].op = op]
    /\ UNCHANGED <<regVars, pool, reqs, nserved, menu, normVars, lin, lifeVars>>

\* c.data[key] = value, or delete(c.data, key): the write begins
TaskWriteBegin(t) ==
    /\ tasks[t].pc = "locked" /\ tasks[t].op \in {"Set", "Delete"}
    /\ tasks' = [tasks EXCEPT ![t].pc = "writing"]
    /\ UNCHANGED <<regVars, serveVars, normVars, lin, lifeVars>>

\* the write is done
TaskWriteEnd(t) ==
    /\ tasks[t].pc = "writing"
    /\ ctxs' = [ctxs EXCEPT ![tasks[t].ctx] =
                    IF tasks[t].op = "Set" THEN Set(@, "k", t) ELSE Delete(@, "k")]
    /\ tasks' = [tasks EXCEPT ![t].pc = "unlock"]
    /\ lin' = Append(lin, [op |-> tasks[t].op, t |-> t])
    /\ UNCHANGED <<regVars, pool, reqs, nserved, menu, normVars, lifeVars>>

\* v, ok := c.data[key]
TaskRead(t) ==
    /\ tasks[t].pc = "locked" /\ tasks[t].op = "Get"
    /\ \E res \in (IF Writing(t) THEN RaceOutcomes
                    ELSE {Get(ctxs[tasks[t].ctx], "k")}) :
          tasks' = [tasks EXCEPT ![t].pc = "unlock", ![t].res = res]
    /\ lin' = Append(lin, [op |-> "Get", t |-> t])
    /\ UNCHANGED <<regVars, serveVars, normVars, lifeVars>>

\* the deferred c.mu.Unlock() or c.mu.RUnlock()
TaskUnlock(t) ==
    /\ tasks[t].pc = "unlock"
    /\ ctxs' = [ctxs EXCEPT ![tasks[t].ctx].mu =
                    IF tasks[t].op = "Get" THEN RUnlock(@) ELSE Unlock(@)]
    /\ tasks' = [tasks EXCEPT ![t].pc = "done"]
    /\ UNCHANGED <<regVars, pool, reqs, nserved, menu, normVars, lin, lifeVars>>

InitBag == InitApp(BagMenu, 1)

NextBag ==
    \/ \E r \in 1..MaxReq :
          \/ ServeSearch(r)
          \/ ServeAcquire(r)
          \/ ServeParams(r)
          \/ ServeNext(r)
          \/ NextLoop(r)
          \/ HandlerGo(r)
          \/ HandlerWait(r)
          \/ HandlerReturn(r)
          \/ ServeRelease(r)
    \/ \E t \in DOMAIN tasks :
          \/ TaskLock(t)
          \/ TaskWriteBegin(t)
          \/ TaskWriteEnd(t)
          \/ TaskRead(t)
          \/ TaskUnlock(t)

SpecBag == InitBag /\ [][NextBag]_vars

-----------------------------------------------------------------------------
(* Properties of serving *)

Started(r) == reqs[r].pc \notin {"idle", "off"}

Served(r) == reqs[r].pc = "done" /\ reqs[r].resp = "served"

\* the handlers invoked for the request, in the order of their invocation
LogH(r) == [i \in 1..Len(reqs[r].log) |-> reqs[r].log[i].h]

Invoked(r, h) == \E i \in 1..Len(reqs[r].log) : reqs[r].log[i].h = h

Before(r, h1, h2) ==
    \E i, j \in 1..Len(reqs[r].log) :
        i < j /\ reqs[r].log[i].h = h1 /\ reqs[r].log[j].h = h2

Elems(seq) == {seq[i] : i \in 1..Len(seq)}

\* a pattern matches a path segment by segment
SegMatch(ps, xs) ==
    Len(ps) = Len(xs) /\ \A j \in 1..Len(ps) : IsParam(ps[j]) \/ ps[j] = xs[j]

RefMatches(k, method, path) ==
    k \in OkAdds /\ regs[k].method = method /\ SegMatch(Segs(regs[k].path), Segs(path))

\* the route registrations the request of goroutine r matches
RoutesOf(r) == {k \in OkAdds : RefMatches(k, reqs[r].method, reqs[r].path)}

(* C1: a route registered through a group created by Router.Group runs the *)
(* global middleware, then the group's middleware, then the route's        *)
(* handlers: with Use(R), g = Group("/g", B), g.GET("/c", C), a request    *)
(* GET /g/c invokes R, B, C in this order.                                 *)
C1_GroupOrder ==
    \A r \in 1..MaxReq : Served(r) =>
        \A k \in RoutesOf(r) :
            (regs[k].via # 0 /\ groups[regs[k].via].parent = 0) =>
                LogH(r) = regs[k].glob \o groups[regs[k].via].middlewares \o regs[k].h

(* C2: for a route registered through a nested group, every middleware of  *)
(* the outer group is invoked before every middleware of the inner group,  *)
(* and both before the route's own handlers.                               *)
C2_NestedOrder ==
    \A r \in 1..MaxReq : Served(r) =>
        \A k \in RoutesOf(r) :
            (regs[k].via # 0 /\ groups[regs[k].via].parent # 0) =>
                LET inner == groups[regs[k].via]
                    outer == groups[inner.parent]
                IN  /\ \A m1 \in Elems(outer.middlewares), m2 \in Elems(inner.middlewares) :
                          Before(r, m1, m2)
                    /\ \A m \in Elems(outer.middlewares) \cup Elems(inner.middlewares),
                          h \in Elems(regs[k].h) : Before(r, m, h)

(* C3: the global middleware registered with Use before a route is in the  *)
(* chain of that route also when the route is registered directly on the   *)
(* Router: a matching request invokes it before the route's handlers.      *)
C3_GlobalOnDirectRoutes ==
    \A r \in 1..MaxReq : Served(r) =>
        \A k \in RoutesOf(r) :
            regs[k].via = 0 =>
                \A m \in Elems(regs[k].glob), h \in Elems(regs[k].h) :
                    Invoked(r, h) => Before(r, m, h)

(* C4: once a handler has called Abort(), no handler is invoked for that   *)
(* request any more, whether the aborting handler returns or calls Next()  *)
(* and whether or not earlier handlers wait in their own Next().           *)
C4_AbortStopsChain ==
    \A r \in 1..MaxReq :
        \A i \in 1..Len(reqs[r].log) : ~reqs[r].log[i].afterAbort

\* of three handlers the first waits in Next(), the second called Abort() and
\* then Next(), and the chain has ended without the third
C4_Witness ==
    \E r \in 1..MaxReq :
        /\ reqs[r].pc = "release"
        /\ ~reqs[r].cancelled
        /\ Len(reqs[r].handlers) = 3
        /\ Len(reqs[r].log) = 2
        /\ reqs[r].log[1].script = <<"Next">>
        /\ reqs[r].log[2].script = <<"Abort", "Next">>
        /\ reqs[r].didAbort

(* C9: a request that matches no registered route is answered not-found    *)
(* and nothing else happens: no handler is invoked, no Context is          *)
(* acquired, and the step leaves the pool, the Contexts and the router     *)
(* unchanged.                                                              *)
C9_Unmatched(r) == Started(r) /\ RoutesOf(r) = {}

C9_NotFoundOnly ==
    /\ [](\A r \in 1..MaxReq : C9_Unmatched(r) =>
              /\ reqs[r].pc = "done"
              /\ reqs[r].resp = "notfound"
              /\ reqs[r].log = <<>>
              /\ reqs[r].ctx = 0)
    /\ [][\A r \in 1..MaxReq :
              (reqs'[r] # reqs[r] /\ reqs'[r].pc \notin {"idle", "off"}
                  /\ \A k \in OkAdds :
                        ~RefMatches(k, reqs'[r].method, reqs'[r].path))
              => (pool' = pool /\ ctxs' = ctxs /\ router' = router)]_vars

\* not-found for an unknown path and for a method without routes, while the
\* pool holds a Context of an earlier request
C9_Witness ==
    \E r1, r2 \in 1..MaxReq :
        /\ reqs[r1].pc = "done" /\ reqs[r1].resp = "notfound" /\ reqs[r1].path = PathNone
        /\ reqs[r2].pc = "done" /\ reqs[r2].resp = "notfound" /\ reqs[r2].method = "POST"
        /\ pool # {}

(* C10: no Context is held by two requests at once: the requests between   *)
(* acquireCtx and releaseCtx hold pairwise different Contexts, each bound  *)
(* to its holder, and none of them is in the pool.                         *)
Holds(r) == reqs[r].pc \in {"params", "callnext", "running", "release"}

C10_NoSharedContext ==
    \A r1 \in 1..MaxReq : Holds(r1) =>
        /\ reqs[r1].ctx \notin pool
        /\ ctxs[reqs[r1].ctx].Req = reqs[r1].id
        /\ \A r2 \in 1..MaxReq : (Holds(r2) /\ r2 # r1) => reqs[r2].ctx # reqs[r1].ctx

\* two requests run handlers at the same time, one on a Context that was
\* used before
C10_Witness ==
    \E r1, r2 \in 1..MaxReq :
        /\ r1 # r2
        /\ reqs[r1].pc = "running" /\ reqs[r2].pc = "running"
        /\ reqs[r1].ctx # reqs[r2].ctx
        /\ reqs[r1].id = 1 /\ reqs[r2].id = 3
        /\ Len(ctxs) = 2

(* C11: a Context taken from the pool again shows nothing of the request    *)
(* that used it before. The first handler invoked for a request is the     *)
(* first of its chain, at cursor 0, and what it finds in the Context is    *)
(* exactly the parameters search matched for this request, an empty        *)
(* key/value bag and a cleared abort flag.                                 *)
C11_PoolIsolation ==
    \A r \in 1..MaxReq :
        reqs[r].log # <<>> =>
            LET first == reqs[r].log[1]
            IN  /\ first.h = reqs[r].handlers[1]
                /\ first.index = 0
                /\ first.params = reqs[r].params
                /\ first.data = EmptyMap
                /\ ~first.aborted

\* GET /u/4 runs on the Context that GET /a/7 left with the parameter n, the
\* key k, an advanced cursor and the abort flag set
C11_Witness ==
    \E r1, r2 \in 1..MaxReq :
        /\ r1 # r2
        /\ reqs[r1].pc = "done" /\ reqs[r1].path = PathA7 /\ reqs[r1].didAbort
        /\ Len(reqs[r1].log) = 3
        /\ reqs[r2].id > reqs[r1].id /\ reqs[r2].ctx = reqs[r1].ctx
        /\ reqs[r2].path = PathU4 /\ reqs[r2].pc = "done"
        /\ reqs[r2].log # <<>>
        /\ reqs[r2].log[1].params = (<<"i">> :> <<"4">>)
        /\ reqs[r2].log[1].h = hP
(* C12: for a matched route with a chain of n handlers, whatever n is,      *)
(* when no handler aborts or calls Next() and the request is not           *)
(* cancelled, the Next() of ServeHTTP invokes the handlers 0..n-1, each    *)
(* exactly once, in registration order, and then returns.                  *)
C12_EveryHandlerOnce ==
    \A r \in 1..MaxReq :
        (reqs[r].pc \in {"release", "done", "panic"} /\ reqs[r].resp # "notfound"
             /\ Started(r) /\ ~reqs[r].didAbort /\ ~reqs[r].cancelled) =>
            /\ reqs[r].pc # "panic"
            /\ LogH(r) = reqs[r].handlers
            /\ \A i \in 1..Len(reqs[r].log) : reqs[r].log[i].index = i - 1
(* C13: Next() is reentrant. When a handler's Next() gives the control     *)
(* back, every handler after it has been invoked and has returned, unless  *)
(* the chain was aborted or the request cancelled; the handler goes on,    *)
(* and neither it nor the loops below it invoke any handler afterwards, so *)
(* that no handler is invoked twice and the handlers are invoked in chain  *)
(* order; entries and returns are properly nested.                         *)
EventsAt(r, e, k) ==
    {p \in 1..Len(reqs[r].events) : reqs[r].events[p].e = e /\ reqs[r].events[p].k = k}

InOut(r) == SelectSeq(reqs[r].events, LAMBDA e : e.e \in {"in", "out"})

C14_CancelBetweenHandlers ==
    /\ [](\A r \in 1..MaxReq :
              /\ \A i \in 1..Len(reqs[r].log) : ~reqs[r].log[i].cancelled
              /\ reqs[r].pc \in {"release", "done"} =>
                    \A k \in 0..(Len(reqs[r].handlers) - 1) :
                        /\ Cardinality(EventsAt(r, "in", k)) =
                               Cardinality(EventsAt(r, "out", k))
                        /\ Cardinality(EventsAt(r, "next", k)) =
                               Cardinality(EventsAt(r, "back", k)))
    /\ [][\A r \in 1..MaxReq :
              (reqs[r].cancelled /\ Len(reqs'[r].stack) < Len(reqs[r].stack)) =>
                  /\ reqs'[r].stack = Pop(reqs[r].stack)
                  /\ Top(r).kind = "h" => Top(r).script = <<>>]_vars

\* the request is cancelled while the second handler runs and the first
\* waits in Next(): the second returns, the first gets the control back and
\* returns, the third is never invoked
C14_Witness ==
    \E r \in 1..MaxReq :
        /\ reqs[r].pc = "release"
        /\ reqs[r].cancelled /\ ~reqs[r].didAbort
        /\ Len(reqs[r].handlers) = 3
        /\ [i \in 1..Len(reqs[r].events) |->
                <<reqs[r].events[i].e, reqs[r].events[i].k, reqs[r].events[i].stop>>] =
               << <<"in", 0, FALSE>>, <<"next", 0, FALSE>>, <<"in", 1, FALSE>>,
                  <<"out", 1, TRUE>>, <<"back", 0, TRUE>>, <<"out", 0, TRUE>> >>
(* C15: lookup is invariant under path normalization: for every method,    *)
(* every trie and every raw path p, search(m, p) and                       *)
(* search(m, normalizePath(p)) return the same chain and parameters, or    *)
(* both not-found.                                                         *)
C15_NormalizationInvariant == Len(nres) = 2 => nres[2].res = nres[1].res
(* C16: registering the same method and normalized path again replaces the *)
(* chain at its terminal node. A lookup that reaches the node returns the  *)
(* chain of the latest registration alone, the handlers of the earlier one *)
(* are stored nowhere any more, and the step changes the result of no      *)
(* lookup other than those that returned the replaced chain.               *)
ProbeSegs == {<<"u">>, <<"g">>, <<"m">>, <<"4">>, <<"o">>}

\* request paths of up to 3 segments; those of 2 and 3 segments begin with a
\* segment some pattern begins with, those of 3 end with a segment some
\* pattern of 3 segments can match
Probes ==
    {PathOf(x) : x \in {y \in UNION {[1..n -> ProbeSegs] : n \in 0..3} :
                            /\ Len(y) >= 2 => y[1] \in {<<"u">>, <<"g">>}
                            /\ Len(y) = 3 => y[3] \in {<<"m">>, <<"4">>, <<"o">>}}}

Replaced(j) == j \in OkAdds /\ \E k \in OkAdds : j < k /\ SameRoute(j, k)

C16_ReRegisterReplaces ==
    /\ [](\A j \in OkAdds : Replaced(j) =>
              /\ \A n \in 1..Len(router.nodes) :
                    \A i \in 1..Len(router.nodes[n].handlers) :
                        router.nodes[n].handlers[i] \notin Elems(regs[j].h)
              /\ \A k \in OkAdds : (LatestOk(k) /\ SameRoute(j, k)) =>
                    LET ps == Segs(regs[k].path)
                    IN  \A v \in [1..Len(ps) -> Values] :
                            Unshadowed(regs[k].method, ps, v) =>
                                search(router, regs[k].method,
                                       PathOf(Concretize(ps, v))).handlers = regs[k].chain)
    /\ [][(Len(regs') = Len(regs) + 1 /\ regs'[Len(regs')].op = "add"
              /\ regs'[Len(regs')].ok
              /\ \E j \in OkAdds :
                    /\ regs[j].method = regs'[Len(regs')].method
                    /\ Segs(regs[j].path) = Segs(regs'[Len(regs')].path)) =>
             LET e == regs'[Len(regs')]
                 j == CHOOSE x \in OkAdds :
                          /\ LatestOk(x) /\ regs[x].method = e.method
                          /\ Segs(regs[x].path) = Segs(e.path)
             IN  \A m \in Methods, p \in Probes :
                     LET old == search(router, m, p)
                         new == search(router', m, p)
                     IN  IF m = e.method /\ ~old.hnil /\ old.handlers = regs[j].chain
                         THEN new = [old EXCEPT !.handlers = e.chain]
                         ELSE new = old]_vars

\* /u/m, then /u/:i, then /u/:i again in a non-canonical form: /u/4 returns
\* the third chain and /u/m still the first
C16_Witness ==
    /\ Len(regs) = 3
    /\ regs[1].path = PathUM /\ regs[2].path = PathUI /\ regs[3].path = PathRaw
    /\ \A k \in 1..3 : regs[k].method = "GET" /\ regs[k].ok
    /\ search(router, "GET", PathU4).handlers = <<H(3)>>
    /\ search(router, "GET", PathUM).handlers = <<H(1)>>
(* C17: Set, Get and Delete of one Context are safe when several           *)
(* goroutines of a request call them at once. A goroutine inside Set or    *)
(* Delete is alone inside any of the three operations on that Context, the *)
(* lock says who is inside, and every Get returns what the operations      *)
(* before it, in the order of their accesses, make of the key: the value   *)
(* of the latest Set not followed by a Delete, else not-found.             *)
InCS(t) == tasks[t].pc \in {"locked", "writing", "unlock"}

\* the writes before the access of goroutine t, in the order of the accesses
WritesBefore(t) ==
    LET p == CHOOSE i \in 1..Len(lin) : lin[i].t = t
    IN  SelectSeq(SubSeq(lin, 1, p - 1), LAMBDA e : e.op # "Get")

Expected(t) ==
    LET ws == WritesBefore(t)
    IN  IF ws # <<>> /\ ws[Len(ws)].op = "Set"
        THEN [v |-> ws[Len(ws)].t, ok |-> TRUE]
        ELSE [v |-> 0, ok |-> FALSE]

C17_BagConcurrencySafe ==
    /\ \A t, u \in DOMAIN tasks :
          (t # u /\ tasks[t].ctx = tasks[u].ctx /\ InCS(t) /\ InCS(u)) =>
              (tasks[t].op = "Get" /\ tasks[u].op = "Get")
    /\ \A c \in 1..Len(ctxs) :
          /\ ctxs[c].mu.w =
                (\E t \in DOMAIN tasks :
                    tasks[t].ctx = c /\ InCS(t) /\ tasks[t].op # "Get")
          /\ ctxs[c].mu.r =
                Cardinality({t \in DOMAIN tasks :
                                tasks[t].ctx = c /\ InCS(t) /\ tasks[t].op = "Get"})
    /\ \A t \in DOMAIN tasks :
          (tasks[t].op = "Get" /\ tasks[t].pc \in {"unlock", "done"}) =>
              tasks[t].res = Expected(t)
    /\ \A t \in DOMAIN tasks :
          tasks[t].pc \in {"unlock", "done"} =>
              Cardinality({i \in 1..Len(lin) : lin[i].t = t}) = 1

\* three goroutines: a Set, then two Gets inside the read lock at the same
\* time, both returning the stored value
C17_Witness ==
    /\ DOMAIN tasks = 1..MaxTasks
    /\ tasks[1].op = "Set" /\ tasks[1].pc = "done"
    /\ tasks[2].op = "Get" /\ tasks[2].pc = "unlock"
    /\ tasks[3].op = "Get" /\ tasks[3].pc = "unlock"
    /\ tasks[2].res = [v |-> 1, ok |-> TRUE]
    /\ tasks[3].res = [v |-> 1, ok |-> TRUE]
    /\ ctxs[tasks[1].ctx].mu.r = 2
(* C18: IsAborted() tells of the aborts of the current request only. At    *)
(* every point between acquireCtx and releaseCtx it is true exactly when a *)
(* handler of this request has called Abort(), and so is every answer a    *)
(* handler got; a second handler asking after its Next() returned is told  *)
(* false unless a handler after it aborted.                                *)
C18_IsAbortedCurrentRequest ==
    \A r \in 1..MaxReq :
        /\ Holds(r) => IsAborted(ctxs[reqs[r].ctx]) = reqs[r].didAbort
        /\ \A i \in 1..Len(reqs[r].seen) : reqs[r].seen[i].val = reqs[r].seen[i].did

\* GET /a/7 aborted in its third handler and its second was told true; GET
\* /p/7 then runs on the same Context, and its second handler, asking after
\* the third returned, is told false
C18_Witness ==
    \E r1, r2 \in 1..MaxReq :
        /\ r1 # r2
        /\ reqs[r1].pc = "done" /\ reqs[r1].path = PathA7
        /\ Len(reqs[r1].seen) = 1 /\ reqs[r1].seen[1].val
        /\ reqs[r2].id > reqs[r1].id /\ reqs[r2].ctx = reqs[r1].ctx
        /\ reqs[r2].path = PathP7
        /\ Len(reqs[r2].log) = 3
        /\ Len(reqs[r2].seen) = 1
        /\ reqs[r2].seen[1].h = hV /\ ~reqs[r2].seen[1].val
(* C19: the result of normalizePath is canonical for every input: it       *)
(* begins with "/", has no "//", and ends with "/" only when it is "/";    *)
(* an empty or all-slash input gives "/"; the segments of a result other   *)
(* than "/" are all non-empty, so that insert can read segment[0]; and the *)
(* cases of TestRouter_normalizePath give the results the test expects.    *)
C19_Canonical ==
    Len(nres) >= 1 =>
        LET res == nres[1]
        IN  /\ HasPrefix(res, <<"/">>)
            /\ ~Contains(res, <<"/", "/">>)
            /\ HasSuffix(res, <<"/">>) => res = <<"/">>
            /\ (\A i \in 1..Len(npath) : npath[i] = "/") => res = <<"/">>
            /\ res # <<"/">> =>
                  LET segments == Split(Tail(res), "/")
                  IN  \A i \in 1..Len(segments) : segments[i] # <<>>
            /\ \A ex \in Examples : npath = ex[1] => res = ex[2]

\* "/home//about///contact" gave "/home/about/contact"
C19_Witness ==
    /\ npath = ExRepeated[1]
    /\ Len(nres) >= 1
    /\ nres[1] = ExRepeated[2]
    /\ Len(Split(Tail(nres[1]), "/")) = 3
(* C20: search succeeds only when its walk consumes every segment and ends *)
(* at a terminal node. A found path matches, segment by segment, a pattern *)
(* registered for the method, and the chain is the one of that pattern's   *)
(* latest registration; so a strict prefix of a registered path and a path *)
(* with segments beyond it are not-found unless registered themselves; and *)
(* "/" is found exactly when a route was registered at "/" for the method. *)
C20_SearchTerminalOnly ==
    \A m \in Methods :
        /\ \A p \in Probes :
              LET res == search(router, m, p)
              IN  ~res.hnil =>
                      \E k \in OkAdds :
                          /\ regs[k].method = m
                          /\ res.handlers = regs[k].chain
                          /\ SegMatch(Segs(regs[k].path), Segs(p))
                          /\ LatestOk(k)
        /\ ~search(router, m, PathRoot).hnil =
              (\E k \in OkAdds : regs[k].method = m /\ Segs(regs[k].path) = <<>>)

\* with / and /u/m registered for GET alone: /u and /u/m/o are not-found,
\* GET / is found and POST / is not
C20_Witness ==
    /\ \E j, k \in OkAdds : Last(j, "GET", PathRoot) /\ Last(k, "GET", PathUM)
    /\ \A k \in OkAdds : regs[k].method = "GET"
    /\ search(router, "GET", PathU).hnil
    /\ search(router, "GET", <<"/", "u", "/", "m", "/", "o">>).hnil
    /\ ~search(router, "GET", PathUM).hnil
    /\ ~search(router, "GET", PathRoot).hnil
    /\ search(router, "POST", PathRoot).hnil
(* C21: every Context in the pool, that is released and not acquired       *)
(* again, has no Writer, no Req and no handler chain: a pooled Context     *)
(* holds no reference to a request that has completed.                     *)
C21_PooledContextCleared ==
    \A c \in pool :
        /\ ctxs[c].Writer = 0
        /\ ctxs[c].Req = 0
        /\ ctxs[c].handlers = <<>>

\* the Context that served /p/7 is in the pool, cleared, while the request
\* it served is complete
C21_Witness ==
    \E r \in 1..MaxReq :
        /\ reqs[r].pc = "done" /\ reqs[r].resp = "served"
        /\ reqs[r].path = PathP7
        /\ Len(reqs[r].log) = 3
        /\ reqs[r].ctx \in pool
        /\ ctxs[reqs[r].ctx].Writer = 0
        /\ ctxs[reqs[r].ctx].Req = 0
        /\ ctxs[reqs[r].ctx].handlers = <<>>
\* the steps of routerImpl.ServeHTTP for a request whose route is found
DispatchOrder == <<"search", "acquire", "params", "next", "release">>

CountEvents(r, e) ==
    Cardinality({p \in 1..Len(reqs[r].events) : reqs[r].events[p].e = e})

(* C22: for a matched request the dispatcher does the trie search, the     *)
(* acquisition of a Context, the copy of the matched parameters, the       *)
(* initial Next() and the release, in this order and each once; a request  *)
(* that was served has done all five; the Context is released only after   *)
(* the initial Next() has returned, when every handler that was invoked    *)
(* has returned; and no handler runs before the initial Next().            *)
C22_DispatchOrder ==
    \A r \in 1..MaxReq :
        LET q == reqs[r]
        IN  /\ Len(q.steps) <= Len(DispatchOrder)
            /\ q.steps = SubSeq(DispatchOrder, 1, Len(q.steps))
            /\ q.resp = "served" => q.steps = DispatchOrder
            /\ q.resp = "notfound" => q.steps = <<"search">> /\ q.ctx = 0
            /\ Len(q.log) > 0 => Len(q.steps) >= 4
            /\ Len(q.steps) = 4 => q.params = [k \in DOMAIN q.params |->
                                                  ctxs[q.ctx].params[k]]
            /\ (Len(q.steps) \in 2..4 /\ q.pc # "panic") => q.ctx \notin pool
            /\ (q.pc = "release" \/ Len(q.steps) = 5) =>
                  /\ q.stack = <<>>
                  /\ CountEvents(r, "in") = Len(q.log)
                  /\ CountEvents(r, "out") = Len(q.log)
                  /\ CountEvents(r, "next") = CountEvents(r, "back")

\* GET /t was served: its wrapping handler called Next, the control came
\* back to it, it returned, and only then the Context was released
C22_Witness ==
    \E r \in 1..MaxReq :
        /\ reqs[r].path = PathT
        /\ reqs[r].resp = "served"
        /\ reqs[r].steps = DispatchOrder
        /\ Len(reqs[r].log) >= 2
        /\ CountEvents(r, "next") >= 1
        /\ CountEvents(r, "out") = Len(reqs[r].log)
        /\ reqs[r].ctx \in pool
-----------------------------------------------------------------------------
(* Group path composition: Router.Group(prefix), then on the group either  *)
(* GET(rel) and a search at the path the two compose, or Group(sub)        *)

MaxPart == 2            \* the length of a prefix and of a relative path

Parts == UNION {[1..n -> Alphabet] : n \in 0..MaxPart}

InitCompose ==
    /\ router = newRouter
    /\ groups = <<>>
    /\ fault = "none"
    /\ regs = <<>>
    /\ pool = {}
    /\ ctxs = <<>>
    /\ reqs = [r \in 1..MaxReq |-> [IdleReq EXCEPT !.pc = "off"]]
    /\ nserved = 0
    /\ menu = {}
    /\ npath \in Parts \X Parts
    /\ nres = <<>>
    /\ tasks = <<>>
    /\ lin = <<>>
    /\ an = New

\* g := r.Group(prefix, M(1))
ComposeGroup ==
    /\ groups = <<>>
    /\ Register(Call("Group", "", npath[1], 0, <<M(1)>>))
    /\ UNCHANGED normVars

\* g.GET(rel, H(1))
ComposeAdd ==
    /\ Len(groups) = 1 /\ Len(regs) = 1
    /\ Register(Call("add", "GET", npath[2], 1, <<H(1)>>))
    /\ UNCHANGED normVars

\* g.Group(sub, M(2))
ComposeChild ==
    /\ Len(groups) = 1 /\ Len(regs) = 1
    /\ Register(Call("SubGroup", "", npath[2], 1, <<M(2)>>))
    /\ UNCHANGED normVars

\* search("GET", normalizePath(prefix + "/" + rel))
ComposeSearch ==
    /\ Len(regs) = 2 /\ regs[2].op = "add" /\ nres = <<>>
    /\ nres' = <<search(router, "GET",
                        normalizePath(npath[1] \o <<"/">> \o npath[2]))>>
    /\ UNCHANGED <<regVars, serveVars, npath, taskVars, lifeVars>>

NextCompose == ComposeGroup \/ ComposeAdd \/ ComposeChild \/ ComposeSearch

SpecCompose == InitCompose /\ [][NextCompose]_vars

(* C23: a route registered with Group(prefix).GET(rel, H) is found by      *)
(* search at normalizePath(prefix + "/" + rel), for every prefix and rel,   *)
(* with the chain of the group's middleware and H; and a relative path ""   *)
(* or "/" registers the route at the prefix of the group.                   *)
C23_GroupRoundTrip ==
    (Len(nres) = 1 /\ fault = "none") =>
        /\ ~nres[1].hnil
        /\ nres[1].handlers = <<M(1), H(1)>>
        /\ npath[2] \in {<<>>, <<"/">>} =>
              /\ regs[2].path = groups[1].prefix
              /\ ~search(router, "GET", groups[1].prefix).hnil
\* the handler on top of goroutine r's stack is about to call c.Next() on a
\* Context whose abort flag is set
NextOnAborted(r) ==
    /\ reqs[r].pc = "running"
    /\ reqs[r].stack # <<>>
    /\ Top(r).kind = "h" /\ Top(r).script # <<>> /\ Head(Top(r).script) = "Next"
    /\ ctxs[reqs[r].ctx].aborted

(* C24: Next() called on a Context whose abort flag is set does nothing:   *)
(* no handler is invoked, and the cursor, the abort flag, the parameters   *)
(* and the key/value bag of the Context are as before; the caller goes on  *)
(* with its own next statement.                                            *)
C24_NextOnAbortedNoOp ==
    [][\A r \in 1..MaxReq :
          (NextOnAborted(r) /\ reqs'[r].stack # reqs[r].stack) =>
              /\ ctxs'[reqs[r].ctx] = ctxs[reqs[r].ctx]
              /\ reqs'[r].log = reqs[r].log
              /\ reqs'[r].pc = "running"
              /\ reqs'[r].stack =
                     [reqs[r].stack EXCEPT ![Len(reqs[r].stack)].script = Tail(@)]]_vars

\* the first handler called Abort and then Next, got the control back at
\* once, and no second handler was invoked
C24_Witness ==
    \E r \in 1..MaxReq :
        /\ reqs[r].pc = "done" /\ reqs[r].resp = "served"
        /\ ~reqs[r].cancelled
        /\ Len(reqs[r].log) = 1
        /\ reqs[r].log[1].script = <<"Abort", "Next">>
        /\ \E p \in 1..(Len(reqs[r].events) - 1) :
              /\ reqs[r].events[p].e = "next" /\ reqs[r].events[p].stop
              /\ reqs[r].events[p + 1].e = "back"
-----------------------------------------------------------------------------
(* The trie alone: routes registered on the Router for GET and POST, in    *)
(* canonical and non-canonical forms, with and without conflicts           *)

NextTrie == RouterAdd

SpecTrie == Init /\ [][NextTrie]_vars

\* the nodes of the tree under cur, each with the pattern segments that lead
\* to it from the root
RECURSIVE TrieNodes(_, _, _)
TrieNodes(R, cur, segs) ==
    LET n == R.nodes[cur]
    IN  {<<cur, segs>>}
        \cup UNION {TrieNodes(R, n.children[s], Append(segs, s)) : s \in DOMAIN n.children}
        \cup (IF n.paramChild # 0
              THEN TrieNodes(R, n.paramChild,
                             Append(segs, <<":">> \o R.nodes[n.paramChild].paramName))
              ELSE {})

(* C25: after the successful inserts, in the tree of every method: a node  *)
(* is terminal exactly when a registered route's normalized path ends at   *)
(* it; a node that is not terminal holds no chain; a node has at most one  *)
(* parameter child (no child entered under a ":" key beside it), and the   *)
(* name of the parameter child is the name every registered pattern going  *)
(* through that position uses. No node is reached by two paths.            *)
C25_TrieInvariant ==
    \A m \in Methods :
        router.trees[m] # 0 =>
            LET T == TrieNodes(router, router.trees[m], <<>>)
                Routes == {Segs(regs[k].path) : k \in {j \in OkAdds : regs[j].method = m}}
            IN  /\ \A t \in T :
                      LET n == router.nodes[t[1]]
                          d == Len(t[2])
                      IN  /\ n.isEnd = (t[2] \in Routes)
                          /\ ~n.isEnd => (n.hnil /\ n.handlers = <<>>)
                          /\ \A s \in DOMAIN n.children : ~IsParam(s)
                          /\ n.paramChild # 0 =>
                                \A ps \in Routes :
                                    (/\ Len(ps) > d
                                     /\ SubSeq(ps, 1, d) = t[2]
                                     /\ IsParam(ps[d + 1])) =>
                                        Tail(ps[d + 1]) = router.nodes[n.paramChild].paramName
                /\ \A t1, t2 \in T : t1[1] = t2[1] => t1 = t2

\* GET /u/m and GET /u/:i/o are registered: the node of "u" is not terminal
\* and has a literal child and a parameter child, the node of ":i" is not
\* terminal, the nodes of "m" and "o" are
C25_Witness ==
    /\ fault = "none"
    /\ \E j, k \in OkAdds : Last(j, "GET", PathUM) /\ Last(k, "GET", PathUIO)
    /\ router.trees["GET"] # 0
    /\ \E t \in TrieNodes(router, router.trees["GET"], <<>>) :
          /\ t[2] = <<<<"u">>>>
          /\ ~router.nodes[t[1]].isEnd
          /\ router.nodes[t[1]].paramChild # 0
          /\ <<"m">> \in DOMAIN router.nodes[t[1]].children
          /\ ~router.nodes[router.nodes[t[1]].paramChild].isEnd
\* the tree of method m: its root and, node by node, what it holds
TreeOf(R, m) ==
    IF R.trees[m] = 0 THEN {}
    ELSE {<<t[2], R.nodes[t[1]]>> : t \in TrieNodes(R, R.trees[m], <<>>)}

(* C26: routes are kept per method. A registration for method m1 changes   *)
(* the tree of m1 alone: for every other method m2 the tree is the same    *)
(* before and after (none is created either), and so is the result of      *)
(* search(m2, p) for every path p; and a method for which no route was     *)
(* registered finds no path, whatever the other methods hold.              *)
C26_MethodIsolation ==
    /\ [](\A m \in Methods :
             (\A k \in OkAdds : regs[k].method # m) =>
                 \A p \in Probes : search(router, m, p).hnil)
    /\ [][\A m2 \in Methods :
             (/\ Len(regs') = Len(regs) + 1
              /\ regs'[Len(regs')].op = "add"
              /\ regs'[Len(regs')].method # m2) =>
                 /\ router'.trees[m2] = router.trees[m2]
                 /\ TreeOf(router', m2) = TreeOf(router, m2)
                 /\ \A p \in Probes :
                       search(router', m2, p) = search(router, m2, p)]_vars

\* /u/m is registered for GET and then / for POST: GET still finds /u/m and
\* not /, POST finds / and not /u/m
C26_Witness ==
    /\ fault = "none"
    /\ \E j, k \in OkAdds :
          /\ j < k
          /\ Last(j, "GET", PathUM)
          /\ Last(k, "POST", PathRoot)
    /\ ~search(router, "GET", PathUM).hnil
    /\ search(router, "POST", PathUM).hnil
    /\ ~search(router, "POST", PathRoot).hnil
    /\ search(router, "GET", PathRoot).hnil
(* C27: serving reads the routing state and never writes it. Whatever the  *)
(* requests (found, not found, of a method no route was registered for)    *)
(* and however many are served at a time, the trees, their nodes and the   *)
(* global middleware list stay as registration left them; a step of the    *)
(* dispatcher or of a handler changes, besides the pool, only the Context  *)
(* of the request that takes the step.                                     *)
C27_ServingReadOnly ==
    /\ [](router = App.router /\ groups = App.groups /\ regs = App.regs)
    /\ [][/\ router' = router
          /\ \A c \in 1..Len(ctxs) :
                ctxs'[c] # ctxs[c] =>
                    \E r \in 1..MaxReq :
                        /\ reqs'[r] # reqs[r]
                        /\ reqs[r].ctx = c \/ reqs'[r].ctx = c]_vars

\* two requests were served at the same time, POST / which has no tree and
\* GET /g/n/x which was found, and a third was not found in the GET tree
C27_Witness ==
    /\ nserved = MaxServed
    /\ \E r1, r2 \in 1..MaxReq :
          /\ r1 # r2
          /\ reqs[r1].resp = "served" /\ reqs[r1].path = PathGNX
          /\ reqs[r2].resp = "notfound" /\ reqs[r2].method = "POST"
          /\ reqs[r2].id < reqs[r1].id
          /\ reqs[r1].id = MaxServed
    /\ router.trees["POST"] = 0
    /\ router = App.router
\* the groups created by g.Group(...)
ChildrenOf(g) == {c \in 1..Len(groups) : groups[c].parent = g}

(* C28: parent.Group(sub, extra) leaves the parent as it was: the call     *)
(* changes no existing Group value (prefix, middleware, parent) and not    *)
(* the router; and the chain of a route registered on a group, before or   *)
(* after a child of that group was created, holds none of the child's      *)
(* middleware, in the history of the call and in the trie alike.           *)
C28_ChildLeavesParent ==
    /\ [](\A k \in 1..Len(regs) :
             (regs[k].op = "add" /\ regs[k].via # 0) =>
                 /\ \A c \in ChildrenOf(regs[k].via) :
                       \A x \in Elems(groups[c].middlewares) :
                           x \notin Elems(regs[k].chain)
                 /\ LatestOk(k) =>
                       search(router, regs[k].method, regs[k].path).handlers
                           = regs[k].chain)
    /\ [][(Len(regs') = Len(regs) + 1 /\ regs'[Len(regs')].op = "SubGroup") =>
             /\ Len(groups') = Len(groups) + 1
             /\ \A g \in 1..Len(groups) : groups'[g] = groups[g]
             /\ router' = router]_vars

\* a group with middleware, a child of it with middleware of its own, then
\* a route on the parent: its chain is the parent's middleware and the handler
C28_Witness ==
    /\ Len(regs) = 3 /\ fault = "none"
    /\ regs[1].op = "Group" /\ regs[1].h # <<>>
    /\ regs[2].op = "SubGroup" /\ regs[2].via = 1
    /\ regs[3].op = "add" /\ regs[3].via = 1 /\ regs[3].ok
    /\ groups[2].middlewares # <<>>
    /\ regs[3].chain = groups[1].middlewares \o regs[3].h
    /\ search(router, "GET", regs[3].path).handlers = regs[3].chain
(* C29: the prefix of the group that parent.Group(sub) returns is the      *)
(* normalized concatenation normalizePath(parent.prefix + "/" + sub), for  *)
(* every sub, "" and "/" included, and for a parent whose prefix is "/".   *)
C29_ChildPrefixNormalized ==
    (Len(groups) = 2 /\ groups[2].parent = 1) =>
        groups[2].prefix = normalizePath(groups[1].prefix \o <<"/">> \o npath[2])
(* C30, as stated: whenever a request path matches a pattern registered    *)
(* for the method segment by segment (as many segments, literal segments   *)
(* equal, a parameter segment matching any value), search finds a route.   *)
C30_LookupComplete ==
    \A m \in Methods, p \in Probes :
        search(router, m, p).hnil =>
            ~\E k \in OkAdds : RefMatches(k, m, p)

(* C30, amended: search finds a route whenever the request path matches a  *)
(* pattern registered for the method segment by segment and, at each       *)
(* parameter position of that pattern, no route registered for the method  *)
(* with the same segments before it has a literal segment equal to the     *)
(* path's segment there. (search prefers the literal child and never       *)
(* comes back to try the parameter child.)                                 *)
C30_CompleteUnshadowed ==
    \A m \in Methods, p \in Probes :
        search(router, m, p).hnil =>
            ~\E k \in OkAdds :
                /\ RefMatches(k, m, p)
                /\ Unshadowed(m, Segs(regs[k].path), Segs(p))

\* with /u/m and /u/:i/o registered for GET, /u/4/o is found through the
\* parameter, and /u/m/o, which the pattern /u/:i/o matches, is not
C30_Witness ==
    /\ fault = "none"
    /\ \E j, k \in OkAdds : Last(j, "GET", PathUM) /\ Last(k, "GET", PathUIO)
    /\ ~search(router, "GET", <<"/", "u", "/", "4", "/", "o">>).hnil
    /\ search(router, "GET", <<"/", "u", "/", "4", "/", "o">>).params
           = (<<"i">> :> <<"4">>)
    /\ search(router, "GET", <<"/", "u", "/", "m", "/", "o">>).hnil
-----------------------------------------------------------------------------
(* Lookup results: searches, one after the other, against tries that hold  *)
(* any of six routes, among them a pattern that repeats a parameter name   *)
(* and a pattern registered twice                                          *)

MaxSegs == 2            \* the segments of a searched path

SoundCalls ==
    << Call("add", "GET", PathRoot, 0, <<H(1)>>),
       Call("add", "GET", <<"/", ":", "i", "/", ":", "i">>, 0, <<H(2)>>),
       Call("add", "GET", PathUI, 0, <<H(3)>>),
       Call("add", "GET", PathUM, 0, <<H(4)>>),
       Call("add", "GET", <<"u", "/", "/", ":", "i", "/">>, 0, <<H(5)>>),
       Call("add", "POST", <<"/", ":", "n">>, 0, <<H(6)>>) >>

RECURSIVE SoundState(_, _)
SoundState(k, S) ==
    IF k = 0
    THEN [router |-> newRouter, groups |-> <<>>, fault |-> "none", regs |-> <<>>]
    ELSE IF k \in S THEN ApplyCall(SoundState(k - 1, S), SoundCalls[k])
    ELSE SoundState(k - 1, S)

SoundPaths ==
    {PathOf(x) : x \in UNION {[1..n -> {<<"u">>, <<"m">>, <<"4">>}] : n \in 0..MaxSegs}}

InitSound ==
    /\ \E S \in SUBSET (1..Len(SoundCalls)) :
          /\ router = SoundState(Len(SoundCalls), S).router
          /\ regs = SoundState(Len(SoundCalls), S).regs
    /\ groups = <<>>
    /\ fault = "none"
    /\ pool = {}
    /\ ctxs = <<>>
    /\ reqs = [r \in 1..MaxReq |-> [IdleReq EXCEPT !.pc = "off"]]
    /\ nserved = 0
    /\ menu = {}
    /\ npath \in SoundPaths
    /\ nres = <<>>
    /\ tasks = <<>>
    /\ lin = <<>>
    /\ an = New

\* a search that returns one map it keeps from call to call
paramsObjectShared(n) == 1

\* params := make(map[string]string) in the n-th search: an object of its own
paramsObject(n) == n

\* the map search returns: nil when nothing is found and for the root path
searchParams(R, method, path0, n) ==
    IF search(R, method, path0).hnil \/ normalizePath(path0) = <<"/">> THEN 0
    ELSE paramsObject(n)

\* search(method, npath), for one request after the other
SoundSearch ==
    /\ Len(nres) < 2
    /\ \E method \in Methods :
          nres' = Append(nres, [method |-> method,
                                res |-> search(router, method, npath),
                                map |-> searchParams(router, method, npath,
                                                     Len(nres) + 1)])
    /\ UNCHANGED <<regVars, serveVars, npath, taskVars, lifeVars>>

NextSound == SoundSearch

SpecSound == InitSound /\ [][NextSound]_vars

\* the segment at the last position of ps that names nm
BindingLast(ps, xs) ==
    [nm \in ParamNames(ps) |->
        xs[CHOOSE j \in 1..Len(ps) :
              /\ IsParam(ps[j]) /\ Tail(ps[j]) = nm
              /\ \A i \in (j + 1)..Len(ps) : ~(IsParam(ps[i]) /\ Tail(ps[i]) = nm)]]

(* C31: whenever search(m, p) returns a chain, it is the chain of the most *)
(* recent registration of a pattern P of method m that normalizePath(p)    *)
(* matches segment by segment, and the parameters returned bind each       *)
(* parameter name of P, and nothing else, to the segment of p at the       *)
(* position of that name, the last such position when P repeats the name.  *)
(* The map returned is made by that search: two searches never return the  *)
(* same map.                                                               *)
C31_LookupSound ==
    /\ \A e \in 1..Len(nres) :
          ~nres[e].res.hnil =>
              \E k \in OkAdds :
                  /\ regs[k].method = nres[e].method
                  /\ SegMatch(Segs(regs[k].path), Segs(npath))
                  /\ LatestOk(k)
                  /\ nres[e].res.handlers = regs[k].chain
                  /\ nres[e].res.params = BindingLast(Segs(regs[k].path), Segs(npath))
    /\ \A e, f \in 1..Len(nres) :
          (e # f /\ nres[e].map # 0) => nres[e].map # nres[f].map

\* /m/4 against /:i/:i gives i = 4; then the same search again, with a map
\* of its own
C31_Witness ==
    /\ npath = <<"/", "m", "/", "4">>
    /\ Len(nres) = 2
    /\ nres[1].method = "GET" /\ nres[2].method = "GET"
    /\ nres[1].res.handlers = <<H(2)>>
    /\ nres[1].res.params = (<<"i">> :> <<"4">>)
    /\ nres[1].map # 0 /\ nres[2].map # 0
(* C32: a registration that fails with a parameter-name conflict leaves    *)
(* the routing state as it was before the call: no tree and no node is     *)
(* created, no terminal flag, chain or parameter name is changed, no group *)
(* is changed, and so every search returns what it returned before.        *)
C32_FailedRegistrationNoEffect ==
    [][(/\ Len(regs') = Len(regs) + 1
        /\ regs'[Len(regs')].op = "add"
        /\ ~regs'[Len(regs')].ok) =>
           /\ fault' = "conflict"
           /\ router' = router
           /\ groups' = groups
           /\ \A p \in {PathUM, PathU4, PathRoot} :
                 search(router', "GET", p) = search(router, "GET", p)]_vars

\* /u/m and /u/:i are registered, the registration of /u/:n was refused,
\* and /u/4 is still found with i = 4
C32_Witness ==
    /\ fault = "conflict"
    /\ Len(regs) = 3
    /\ regs[1].ok /\ regs[2].ok /\ ~regs[3].ok
    /\ Segs(regs[3].path) = Segs(PathUN)
    /\ \E j \in OkAdds : Last(j, regs[3].method, PathUM)
    /\ search(router, regs[3].method, PathU4).params = (<<"i">> :> <<"4">>)
    /\ search(router, regs[3].method, PathU4).handlers \in {regs[1].chain, regs[2].chain}
-----------------------------------------------------------------------------
(* Faults: an application with Recover as global middleware, as New()      *)
(* installs it, a group route and a direct route whose first handler       *)
(* panics, and a route whose first handler aborts without faulting        *)

PathF == <<"/", "f">>
PathGF == <<"/", "g", "/", "f">>

FaultCalls ==
    << Call("Use", "", <<>>, 0, <<Recover>>),
       Call("Group", "", PathG, 0, <<>>),
       Call("add", "GET", PathF, 1, <<hF, hQ>>),
       Call("add", "GET", PathC, 1, <<hA, hP>>),
       Call("add", "GET", PathF, 0, <<hF, hQ>>) >>

RECURSIVE FaultState(_)
FaultState(k) ==
    IF k = 0
    THEN [router |-> newRouter, groups |-> <<>>, fault |-> "none", regs |-> <<>>]
    ELSE ApplyCall(FaultState(k - 1), FaultCalls[k])

FaultApp == FaultState(Len(FaultCalls))

FaultMenu == {Req("GET", PathGF), Req("GET", PathGC), Req("GET", PathF)}

InitFault ==
    /\ router = FaultApp.router
    /\ groups = FaultApp.groups
    /\ fault = FaultApp.fault
    /\ regs = FaultApp.regs
    /\ pool = {}
    /\ ctxs = <<>>
    /\ reqs = [r \in 1..MaxReq |-> IdleReq]
    /\ nserved = 0
    /\ menu = FaultMenu
    /\ npath = <<>>
    /\ nres = <<>>
    /\ tasks = <<>>
    /\ lin = <<>>
    /\ an = New

NextFault == NextServe \/ \E r \in 1..MaxReq : HandlerPanic(r)

SpecFault == InitFault /\ [][NextFault]_vars

(* C33: when a handler downstream of Recover panics, Recover recovers and  *)
(* writes the 500 response, no handler placed after the faulting one in    *)
(* the chain is invoked for that request, and the dispatcher releases the  *)
(* Context as usual.                                                       *)
C33_RecoverStopsChain ==
    \A r \in 1..MaxReq :
        LET q == reqs[r]
        IN  /\ (q.pc # "panic" /\ \E i \in 1..Len(q.log) :
                                       q.log[i].h = hF /\ Recover \in Elems(q.handlers)) =>
                   \/ q.status = 500
                   \/ q.pc = "running" /\ Top(r).h = hF
            /\ q.status = 500 =>
                   /\ q.log[Len(q.log)].h = hF
                   /\ q.pc \in {"running", "release", "done"}
                   /\ q.pc = "done" => (q.resp = "served" /\ q.steps = DispatchOrder)
-----------------------------------------------------------------------------
(* Redundant Next calls: one goroutine serving a route whose only handler  *)
(* calls c.Next() n times, for every n up to MaxCalls                      *)

MaxCalls == 128

PathR == <<"/", "r">>

RedundantApp(n) ==
    ApplyCall(AppState(0), Call("add", "GET", PathR, 0, <<hN(n)>>))

InitRedundant ==
    /\ \E n \in 0..MaxCalls :
          /\ router = RedundantApp(n).router
          /\ regs = RedundantApp(n).regs
    /\ groups = <<>>
    /\ fault = "none"
    /\ pool = {}
    /\ ctxs = <<>>
    /\ reqs = [r \in 1..MaxReq |-> IF r = 1 THEN IdleReq
                                   ELSE [IdleReq EXCEPT !.pc = "off"]]
    /\ nserved = 0
    /\ menu = {Req("GET", PathR)}
    /\ npath = <<>>
    /\ nres = <<>>
    /\ tasks = <<>>
    /\ lin = <<>>
    /\ an = New

NextRedundant ==
    \E r \in 1..MaxReq :
        \/ ServeSearch(r)
        \/ ServeAcquire(r)
        \/ ServeParams(r)
        \/ ServeNext(r)
        \/ NextLoop(r)
        \/ HandlerNext(r)
        \/ HandlerReturn(r)
        \/ ServeRelease(r)

SpecRedundant == InitRedundant /\ [][NextRedundant]_vars

(* C34: during a request Next() calls handlers at valid positions only:    *)
(* every index used to call a handler is at least 0 and less than the      *)
(* length of the chain (no index out of range), the cursor never goes      *)
(* back (so it is never below the 0 the initial Next() set), and each      *)
(* handler of the chain is invoked at most once, however many times, more  *)
(* than 127 included, handlers call Next() again after the end of the      *)
(* chain was reached.                                                      *)
C34_ValidPositions ==
    \A r \in 1..MaxReq :
        LET q == reqs[r]
        IN  /\ q.pc # "panic"
            /\ \A i \in 1..Len(q.log) :
                  /\ q.log[i].index >= 0 /\ q.log[i].index < Len(q.handlers)
                  /\ \A j \in 1..Len(q.log) : q.log[j].index = q.log[i].index => i = j
            /\ (q.pc \in {"running", "release"} /\ Len(q.steps) = 4) =>
                  ctxs[q.ctx].index >= 0
(* C35: the chain of a route is fixed when the route is registered. A      *)
(* later Use, a later Group or sub-group, and a later registration of      *)
(* another route leave what search returns for the route as it was, and    *)
(* it stays the chain composed at the registration: the middleware of the  *)
(* group and its parents, the global middleware of that moment, and the    *)
(* route's handlers.                                                       *)
C35_ChainFixedAtRegistration ==
    /\ [](\A k \in OkAdds : LatestOk(k) =>
             /\ search(router, regs[k].method, regs[k].path).handlers = regs[k].chain
             /\ regs[k].chain =
                    (IF regs[k].via = 0 THEN <<>>
                     ELSE collectUp(groups, regs[k].via) \o regs[k].glob) \o regs[k].h)
    /\ [][\A k \in OkAdds :
             (/\ Len(regs') = Len(regs) + 1
              /\ LatestOk(k)
              /\ ~(/\ regs'[Len(regs')].op = "add"
                   /\ regs'[Len(regs')].ok
                   /\ regs'[Len(regs')].method = regs[k].method
                   /\ Segs(regs'[Len(regs')].path) = Segs(regs[k].path))) =>
                 search(router', regs[k].method, regs[k].path)
                     = search(router, regs[k].method, regs[k].path)]_vars

\* a group with middleware, a route on it, then Use: the route's chain is
\* still the group's middleware and the handler, without the new global
\* middleware
C35_Witness ==
    /\ Len(regs) = 3 /\ fault = "none"
    /\ regs[1].op = "Group" /\ regs[1].h # <<>>
    /\ regs[2].op = "add" /\ regs[2].via = 1 /\ regs[2].ok
    /\ regs[3].op = "Use"
    /\ router.middlewares = regs[3].h
    /\ search(router, "GET", regs[2].path).handlers = regs[1].h \o regs[2].h
(* C36: a Context goes back to the pool only through the dispatcher's      *)
(* release, after the initial Next() has returned. When a handler's panic  *)
(* leaves ServeHTTP (no Recover in the chain) the Context of that request  *)
(* is never put in the pool: it stays bound to the request that faulted,   *)
(* and no later request gets a Context whose Writer, Req or chain belong   *)
(* to another request.                                                     *)
C36_FaultedContextNotPooled ==
    /\ [](/\ \A c \in pool :
                ctxs[c].Writer = 0 /\ ctxs[c].Req = 0 /\ ctxs[c].handlers = <<>>
          /\ \A r \in 1..MaxReq :
                /\ reqs[r].pc = "panic" =>
                      /\ reqs[r].ctx \notin pool
                      /\ ctxs[reqs[r].ctx].Req = reqs[r].id
                      /\ \A r2 \in 1..MaxReq :
                            (r2 # r /\ InFlight(r2)) => reqs[r2].ctx # reqs[r].ctx
                /\ reqs[r].pc \in {"params", "callnext", "running", "release"} =>
                      /\ ctxs[reqs[r].ctx].Writer = reqs[r].id
                      /\ ctxs[reqs[r].ctx].Req = reqs[r].id
                      /\ ctxs[reqs[r].ctx].handlers = reqs[r].handlers)
    /\ [][\A c \in pool' \ pool :
             \E r \in 1..MaxReq :
                 /\ reqs[r].ctx = c
                 /\ reqs[r].pc = "release" /\ reqs[r].stack = <<>>
                 /\ reqs'[r].steps = DispatchOrder]_vars

\* GET /f panicked with no Recover in its chain: its Context is not in the
\* pool and still bound to it; a later request was served on another Context
C36_Witness ==
    \E r1, r2 \in 1..MaxReq :
        /\ reqs[r1].pc = "panic" /\ reqs[r1].path = PathF
        /\ Recover \notin Elems(reqs[r1].handlers)
        /\ reqs[r1].ctx \notin pool
        /\ ctxs[reqs[r1].ctx].Req = reqs[r1].id
        /\ reqs[r2].resp = "served" /\ reqs[r2].id > reqs[r1].id
        /\ reqs[r2].ctx # reqs[r1].ctx
        /\ reqs[r2].ctx \in pool
-----------------------------------------------------------------------------
(* Run, waitStopSignal and Stop.  an.run is the position of the goroutine  *)
(* in Run, an.lis that of the goroutine Run starts for ListenAndServe,     *)
(* an.stops[s] that of the s-th goroutine calling Stop.  an.stop is the    *)
(* stop channel, an.done and an.m are stopOnce's flag and mutex (0: free,  *)
(* else the goroutine holding it), an.sig is the buffered signal channel.  *)
(* History: an.closes counts the close(an.stop) executed, an.via is the    *)
(* case the select took, an.order tells whether the channel was already    *)
(* closed when Run started waiting, an.signalled whether a signal came.    *)

Alive == an.proc = "up"

LifeStep(a) ==
    /\ an' = a
    /\ UNCHANGED <<regVars, serveVars, normVars, taskVars>>

\* Run up to the call of waitStopSignal: the listener goroutine is started
Run ==
    /\ Alive /\ an.run = "idle"
    /\ LifeStep([an EXCEPT !.run = "notify", !.lis = "start"])

\* sig := make(chan os.Signal, 1); signal.Notify(sig, SIGINT, SIGTERM)
signalNotify ==
    /\ Alive /\ an.run = "notify"
    /\ LifeStep([an EXCEPT !.run = "select", !.notify = TRUE,
                     !.order = IF an.stop = "closed" THEN "before" ELSE "after"])

\* the cases of the select that are ready: a closed channel is always
\* ready to receive from, the signal channel when it holds a signal
ReadyIgnoresStop == IF an.sig THEN {"signal"} ELSE {}
Ready ==
    (IF an.stop = "closed" THEN {"stop"} ELSE {}) \cup (IF an.sig THEN {"signal"} ELSE {})

\* select { case <-an.stop: ... case s := <-sig: ... }
waitStopSignal ==
    /\ Alive /\ an.run = "select"
    /\ \E c \in Ready :
          LifeStep([an EXCEPT !.run = "shutdown", !.via = c,
                       !.sig = IF c = "signal" THEN FALSE ELSE @])

\* an.server.Shutdown(ctx) with a 30 s deadline, then Run returns
Shutdown ==
    /\ Alive /\ an.run = "shutdown"
    /\ LifeStep([an EXCEPT !.run = "returned", !.server = "shutdown"])

\* an.server.ListenAndServe() in the goroutine of Run: ErrServerClosed once
\* the server is shut down, else it serves or fails with another error
ListenAndServe ==
    /\ Alive /\ an.lis = "start"
    /\ IF an.server = "shutdown"
       THEN LifeStep([an EXCEPT !.lis = "closed"])
       ELSE \E o \in {"serving", "error"} : LifeStep([an EXCEPT !.lis = o])

\* ListenAndServe returns ErrServerClosed after Shutdown
ServerClosed ==
    /\ Alive /\ an.lis = "serving" /\ an.server = "shutdown"
    /\ LifeStep([an EXCEPT !.lis = "closed"])

\* log.Fatalf("Server error: %v", err) ends the process
Fatalf ==
    /\ Alive /\ an.lis = "error"
    /\ LifeStep([an EXCEPT !.proc = "exited"])

\* the operating system delivers SIGINT or SIGTERM to the Notify channel
Signal ==
    /\ Alive /\ an.notify /\ ~an.sig /\ ~an.signalled
    /\ LifeStep([an EXCEPT !.sig = TRUE, !.signalled = TRUE])

\* a goroutine calls an.Stop()
Stop(s) ==
    /\ Alive /\ an.stops[s] = "idle"
    /\ LifeStep([an EXCEPT !.stops[s] = "do"])

\* an.stopOnce.Do(f): the fast path returns when the flag is set
OnceDoUnguarded(s) ==
    /\ Alive /\ an.stops[s] = "do"
    /\ LifeStep([an EXCEPT !.stops[s] = "close"])
OnceDo(s) ==
    /\ Alive /\ an.stops[s] = "do"
    /\ LifeStep([an EXCEPT !.stops[s] = IF an.done THEN "returned" ELSE "lock"])

\* the slow path takes stopOnce's mutex
OnceLock(s) ==
    /\ Alive /\ an.stops[s] = "lock" /\ an.m = 0
    /\ LifeStep([an EXCEPT !.stops[s] = "check", !.m = s])

\* under the mutex, f runs only if the flag is still unset
OnceCheck(s) ==
    /\ Alive /\ an.stops[s] = "check"
    /\ LifeStep([an EXCEPT !.stops[s] = IF an.done THEN "unlock" ELSE "close"])

\* close(an.stop): closing a closed channel panics
closeStop(s) ==
    /\ Alive /\ an.stops[s] = "close"
    /\ IF an.stop = "closed"
       THEN LifeStep([an EXCEPT !.stops[s] = "panic"])
       ELSE LifeStep([an EXCEPT !.stop = "closed", !.closes = @ + 1,
                         !.stops[s] = IF an.m = s THEN "store" ELSE "returned"])

\* f has returned: the flag is set
OnceStore(s) ==
    /\ Alive /\ an.stops[s] = "store"
    /\ LifeStep([an EXCEPT !.stops[s] = "unlock", !.done = TRUE])

\* the mutex is released and Stop returns
OnceUnlock(s) ==
    /\ Alive /\ an.stops[s] = "unlock"
    /\ LifeStep([an EXCEPT !.stops[s] = "returned", !.m = 0])

StopStep(s) ==
    OnceDo(s) \/ OnceLock(s) \/ OnceCheck(s) \/ closeStop(s) \/ OnceStore(s)
        \/ OnceUnlock(s)

NextLife ==
    \/ Run \/ signalNotify \/ waitStopSignal \/ Shutdown
    \/ ListenAndServe \/ ServerClosed \/ Fatalf \/ Signal
    \/ \E s \in 1..MaxStops : Stop(s) \/ StopStep(s)

SpecLife == Init /\ [][NextLife]_vars

\* every goroutine that can take a step is scheduled: the steps of Run
\* after its call, of the listener goroutine and of Stop after its call.
\* That Run or Stop is called, and that a signal arrives, is not assumed.
FairLife ==
    /\ WF_vars(signalNotify) /\ WF_vars(waitStopSignal) /\ WF_vars(Shutdown)
    /\ WF_vars(ListenAndServe) /\ WF_vars(ServerClosed) /\ WF_vars(Fatalf)
    /\ \A s \in 1..MaxStops : WF_vars(StopStep(s))

SpecLifeFair == SpecLife /\ FairLife

StopCalled == \E s \in 1..MaxStops : an.stops[s] # "idle"

RunCalled == an.run # "idle"

RunReturned == an.run = "returned" /\ an.server = "shutdown"

(* C37 as stated: once Stop() has been called, a Run() that was called     *)
(* stops waiting, shuts the server down and returns, with no OS signal     *)
(* needed and whichever of Stop() and the wait came first                  *)
C37_StopEndsRun == (StopCalled /\ RunCalled) ~> RunReturned

(* C37: once Stop() has been called, a Run() that was called stops         *)
(* waiting, shuts the server down and returns, with no OS signal needed    *)
(* and whichever of Stop() and the wait came first, unless ListenAndServe  *)
(* has failed; the process ends only through the log.Fatalf that follows   *)
(* such a failure                                                          *)
C37_StopEndsRunUnlessListenFails ==
    /\ (StopCalled /\ RunCalled) ~> (RunReturned \/ an.lis = "error")
    /\ [](an.proc = "exited" => an.lis = "error")

\* Stop() was called before Run started waiting, no signal ever came, and
\* Run has taken the stop case and returned
C37_Witness ==
    /\ RunReturned /\ an.via = "stop" /\ an.order = "before"
    /\ ~an.signalled /\ an.lis = "closed"

(* C38: any number of Stop() calls, one after another or at once, close    *)
(* the stop channel exactly once; none panics, and each returns while the  *)
(* process runs: a call waiting for stopOnce's mutex waits for a call that *)
(* holds it and is about to release it                                     *)
C38_StopIdempotent ==
    /\ [](/\ an.closes <= 1
          /\ \A s \in 1..MaxStops :
                /\ an.stops[s] # "panic"
                /\ an.stops[s] = "returned" => (an.closes = 1 /\ an.stop = "closed")
                /\ an.stops[s] = "lock" =>
                      (an.m = 0 \/ an.stops[an.m] \in {"check", "close", "store", "unlock"}))
    /\ \A s \in 1..MaxStops :
          (an.stops[s] # "idle") ~> (an.stops[s] = "returned" \/ an.proc = "exited")

\* one call has returned, a second holds the mutex after finding the flag
\* set, a third waits for the mutex: the channel was closed once
C38_Witness ==
    \E s1, s2, s3 \in 1..MaxStops :
        /\ an.stops[s1] = "returned" /\ an.stops[s2] = "unlock" /\ an.stops[s3] = "lock"
        /\ an.m = s2 /\ an.closes = 1 /\ an.stop = "closed"

====
